---------------------------- MODULE Spec2Model ----------------------------
(***************************************************************************)
(* Model of the itinerary-construction pipeline of nomadai-backend         *)
(* (src/llm_service.py, class LLMPlanningService).                         *)
(*                                                                         *)
(* Texts are sequences of atoms.  An atom is a word, a single blank,       *)
(* a line break, a punctuation mark, a digit of a day number or a whole    *)
(* numeric literal (a maximal run of digits, commas and a decimal part).   *)
(* Python's `in`, str.find, str.split(sep, 1), str.strip and str.replace   *)
(* are modelled on these sequences exactly as they act on characters.      *)
(* Money is modelled in whole currency units with exact arithmetic.        *)
(***************************************************************************)
EXTENDS Integers, Sequences, FiniteSets, TLC

(***************************************************************************)
(* Bounds of the model.                                                    *)
(***************************************************************************)
MaxFlights == 2
MaxHotels == 2
MaxMentions == 2
MaxDayChunks == 3
MaxCostChunks == 3
MaxDuration == 3
MaxRequests == 2
MaxCandidates == 6
MaxTasks == 2
LongDuration == 11

(***************************************************************************)
(* Generic helpers.                                                        *)
(***************************************************************************)
Min2(a, b) == IF a < b THEN a ELSE b
Max2(a, b) == IF a > b THEN a ELSE b

\* All sequences over S of length 0..n.
SeqsUpTo(S, n) == UNION {[1..k -> S] : k \in 0..n}

RECURSIVE Concat(_)
\* Concatenation of a sequence of sequences.
Concat(ss) == IF ss = <<>> THEN <<>> ELSE Head(ss) \o Concat(Tail(ss))

(***************************************************************************)
(* Python string operations on atom sequences.                             *)
(***************************************************************************)
\* sub occurs in s starting at (1-based) position i.
OccursAt(s, sub, i) ==
    /\ i >= 1
    /\ i + Len(sub) - 1 <= Len(s)
    /\ \A k \in 1..Len(sub) : s[i + k - 1] = sub[k]

\* str.find: the first position where sub occurs, 0 when it does not
\* (Python's -1; positions here are 1-based).
Find(s, sub) ==
    LET hits == {i \in 1..(Len(s) + 1) : OccursAt(s, sub, i)}
    IN  IF hits = {} THEN 0 ELSE CHOOSE i \in hits : \A j \in hits : i <= j

\* `sub in s`
Contains(s, sub) == Find(s, sub) # 0

\* s.split(sub, 1)[1]: what follows the first occurrence of sub.
AfterFirst(s, sub) == SubSeq(s, Find(s, sub) + Len(sub), Len(s))

\* s.split(sub, 1)[0]: what precedes the first occurrence of sub
\* (all of s when sub does not occur).
BeforeFirst(s, sub) ==
    IF Contains(s, sub) THEN SubSeq(s, 1, Find(s, sub) - 1) ELSE s

\* s[:n] with a 1-based position p of a found marker: s[:p-1].
Prefix(s, n) == SubSeq(s, 1, Min2(n, Len(s)))

IsSpace(a) == a \in {" ", "\n"}

\* str.strip(): drop leading and trailing white space.
Strip(s) ==
    LET keep == {i \in 1..Len(s) : ~IsSpace(s[i])}
    IN  IF keep = {} THEN <<>>
        ELSE LET lo == CHOOSE i \in keep : \A j \in keep : i <= j
                 hi == CHOOSE i \in keep : \A j \in keep : i >= j
             IN  SubSeq(s, lo, hi)

RECURSIVE Replace(_, _, _)
\* str.replace(old, new): every non-overlapping occurrence, left to right.
Replace(s, old, new) ==
    IF s = <<>> THEN <<>>
    ELSE IF old # <<>> /\ OccursAt(s, old, 1)
         THEN new \o Replace(SubSeq(s, Len(old) + 1, Len(s)), old, new)
         ELSE <<Head(s)>> \o Replace(Tail(s), old, new)

Digit(n) == CASE n = 0 -> "0" [] n = 1 -> "1" [] n = 2 -> "2" [] n = 3 -> "3"
              [] n = 4 -> "4" [] n = 5 -> "5" [] n = 6 -> "6" [] n = 7 -> "7"
              [] n = 8 -> "8" [] n = 9 -> "9"

\* str(day) for a day number below 100, one atom per digit.
StrInt(n) == IF n < 10 THEN <<Digit(n)>> ELSE <<Digit(n \div 10), Digit(n % 10)>>

(***************************************************************************)
(* Data model (src/models/travel.py).  An Optional value is a sequence of  *)
(* length 0 (None) or 1.                                                   *)
(***************************************************************************)
None == <<>>
Some(x) == <<x>>

\* FlightOption: airline, Optional flight_number, price.
FlightOption(airline, flight_number, price) ==
    [airline |-> airline, flight_number |-> flight_number, price |-> price]

\* HotelOption: name (a sequence of atoms), price_per_night.
HotelOption(name, price_per_night) ==
    [name |-> name, price_per_night |-> price_per_night]

\* TravelRequest: the fields the pipeline reads.
TravelRequest(origin, destination, depart_date, duration, budget) ==
    [origin |-> origin, destination |-> destination,
     depart_date |-> depart_date, duration |-> duration, budget |-> budget]

(***************************************************************************)
(* Calendar dates and date + timedelta(days = n).                          *)
(***************************************************************************)
IsLeap(y) == (y % 4 = 0 /\ y % 100 # 0) \/ y % 400 = 0

DaysInMonth(y, m) ==
    IF m = 2 THEN (IF IsLeap(y) THEN 29 ELSE 28)
    ELSE IF m \in {4, 6, 9, 11} THEN 30 ELSE 31

RECURSIVE AddDays(_, _)
\* date + timedelta(days = n), n >= 0.
AddDays(dt, n) ==
    IF n = 0 THEN dt
    ELSE IF dt.d < DaysInMonth(dt.y, dt.m)
         THEN AddDays([dt EXCEPT !.d = dt.d + 1], n - 1)
         ELSE IF dt.m < 12
              THEN AddDays([y |-> dt.y, m |-> dt.m + 1, d |-> 1], n - 1)
              ELSE AddDays([y |-> dt.y + 1, m |-> 1, d |-> 1], n - 1)

(***************************************************************************)
(* Option selection (_parse_itinerary, lines 365-392).                     *)
(***************************************************************************)
RECURSIVE InsertFlight(_, _)
\* Insert f after every flight whose price is <= f.price: a stable insertion.
InsertFlight(sorted, f) ==
    IF sorted = <<>> THEN <<f>>
    ELSE IF Head(sorted).price <= f.price
         THEN <<Head(sorted)>> \o InsertFlight(Tail(sorted), f)
         ELSE <<f>> \o sorted

RECURSIVE SortedFlights(_)
\* sorted(flights, key=lambda x: x.price): ascending and stable.
SortedFlights(flights) ==
    IF flights = <<>> THEN <<>>
    ELSE InsertFlight(SortedFlights(SubSeq(flights, 1, Len(flights) - 1)),
                      flights[Len(flights)])

RECURSIVE InsertHotel(_, _)
\* Insert h after every hotel whose price is <= h.price_per_night.
InsertHotel(sorted, h) ==
    IF sorted = <<>> THEN <<h>>
    ELSE IF Head(sorted).price_per_night <= h.price_per_night
         THEN <<Head(sorted)>> \o InsertHotel(Tail(sorted), h)
         ELSE <<h>> \o sorted

RECURSIVE SortedHotels(_)
\* sorted(hotels, key=lambda x: x.price_per_night): ascending and stable.
SortedHotels(hotels) ==
    IF hotels = <<>> THEN <<>>
    ELSE InsertHotel(SortedHotels(SubSeq(hotels, 1, Len(hotels) - 1)),
                     hotels[Len(hotels)])

\* Mutant: element 0 is read without the emptiness guard.
ReadsFirstUnguarded(sorted) == TRUE

\* The guard `if sorted_flights` / `if sorted_hotels` of lines 370-371:
\* whether element 0 of the sorted list is read.
ReadsFirst(sorted) == sorted # <<>>

\* sorted_flights[0] if sorted_flights else None
DefaultFlight(flights) ==
    IF ReadsFirst(SortedFlights(flights))
    THEN Some(Head(SortedFlights(flights))) ELSE None

\* sorted_hotels[0] if sorted_hotels else None
DefaultHotel(hotels) ==
    IF ReadsFirst(SortedHotels(hotels))
    THEN Some(Head(SortedHotels(hotels))) ELSE None

\* IndexError: element 0 of an empty list is read.
SelectionRaises(flights, hotels) ==
    \/ ReadsFirst(SortedFlights(flights)) /\ SortedFlights(flights) = <<>>
    \/ ReadsFirst(SortedHotels(hotels)) /\ SortedHotels(hotels) = <<>>

\* str(flight.flight_number): a missing number formats as "None".
StrOpt(o) == IF o = None THEN "None" ELSE o[1]

\* hasattr(flight, 'flight_number') is true of every FlightOption (the field
\* is declared, with default None), so the identifier always has both parts.
FlightIdentifier(f) == <<f.airline, " ", StrOpt(f.flight_number)>>

\* Mutant: the flight share is 0.7 of the budget.
FlightFitsLoose(f, budget) == f.price * 10 <= budget * 7

\* flight.price <= travel_request.budget * 0.6
FlightFits(f, budget) == f.price * 10 <= budget * 6

\* nights = max(1, travel_request.duration - 1)
Nights(duration) == Max2(1, duration - 1)

\* remaining_budget = budget - (selected_flight.price if selected_flight else 0)
RemainingBudget(budget, selected_flight) ==
    budget - (IF selected_flight = None THEN 0 ELSE selected_flight[1].price)

\* Mutant: the remaining budget is not divided by the nights.
HotelFitsPerNight(h, budget, duration, selected_flight) ==
    h.price_per_night * 10 <= RemainingBudget(budget, selected_flight) * 7

\* hotel.price_per_night <= remaining_budget / nights * 0.7
HotelFits(h, budget, duration, selected_flight) ==
    h.price_per_night * Nights(duration) * 10
        <= RemainingBudget(budget, selected_flight) * 7

\* Indices of the flights the scan of lines 374-380 accepts.
FlightMatches(req, text, flights) ==
    {i \in 1..Len(flights) :
        /\ Contains(text, FlightIdentifier(flights[i]))
        /\ FlightFits(flights[i], req.budget)}

\* Mutant: the scan does not stop at the first accepted flight (no break).
SelectFlightLast(req, text, flights) ==
    LET m == FlightMatches(req, text, flights)
    IN  IF m = {} THEN DefaultFlight(flights)
        ELSE Some(flights[CHOOSE i \in m : \A j \in m : i >= j])

\* selected_flight after the scan: the first accepted flight, else the default.
SelectFlight(req, text, flights) ==
    LET m == FlightMatches(req, text, flights)
    IN  IF m = {} THEN DefaultFlight(flights)
        ELSE Some(flights[CHOOSE i \in m : \A j \in m : i <= j])

\* Mutant: the scan accepts a hotel on its price alone.
HotelMatchesAnyName(req, text, hotels, selected_flight) ==
    {i \in 1..Len(hotels) :
        HotelFits(hotels[i], req.budget, req.duration, selected_flight)}

\* Indices of the hotels the scan of lines 387-392 accepts.
HotelMatches(req, text, hotels, selected_flight) ==
    {i \in 1..Len(hotels) :
        /\ Contains(text, hotels[i].name)
        /\ HotelFits(hotels[i], req.budget, req.duration, selected_flight)}

\* selected_hotel after the scan: the first accepted hotel, else the default.
SelectHotel(req, text, hotels, selected_flight) ==
    LET m == HotelMatches(req, text, hotels, selected_flight)
    IN  IF m = {} THEN DefaultHotel(hotels)
        ELSE Some(hotels[CHOOSE i \in m : \A j \in m : i <= j])

(***************************************************************************)
(* Day-segment parser (_parse_itinerary, lines 394-520).                   *)
(***************************************************************************)
\* day_markers for one day, in the order the code tries them.
DayMarkers(day) ==
    << <<"#", "#", "#", " ", "Day", " ">> \o StrInt(day),
       <<"#", "#", " ", "Day", " ">> \o StrInt(day),
       <<"Day", " ">> \o StrInt(day) \o <<":">>,
       <<"Day", " ">> \o StrInt(day) \o <<" ", "-">> >>

MorningMarkers ==
    << <<"Morning", ":">>, <<"**", "Morning", ":", "**">>,
       <<"#", "#", "#", "#", " ", "Morning">>, <<"#", "#", "#", " ", "Morning">> >>

AfternoonMarkers ==
    << <<"Afternoon", ":">>, <<"**", "Afternoon", ":", "**">>,
       <<"#", "#", "#", "#", " ", "Afternoon">>, <<"#", "#", "#", " ", "Afternoon">> >>

EveningMarkers ==
    << <<"Evening", ":">>, <<"**", "Evening", ":", "**">>,
       <<"#", "#", "#", "#", " ", "Evening">>, <<"#", "#", "#", " ", "Evening">> >>

\* Some marker of the list occurs in s.
AnyMarkerIn(s, markers) == \E k \in 1..Len(markers) : Contains(s, markers[k])

\* The first marker of the list (in list order) that occurs in s.
FirstMarkerIn(s, markers) ==
    LET ks == {k \in 1..Len(markers) : Contains(s, markers[k])}
    IN  markers[CHOOSE k \in ks : \A j \in ks : k <= j]

\* The smallest find() position over the markers of a set; 0 stands for
\* float('inf'), no marker found.
EarliestIdx(s, markerSet) ==
    LET hits == {Find(s, m) : m \in {x \in markerSet : Contains(s, x)}}
    IN  IF hits = {} THEN 0 ELSE CHOOSE i \in hits : \A j \in hits : i <= j

\* Mutant: only the markers of the day after `day` are searched.
NextDayMarkersOnlyNext(day, days) ==
    {Replace(DayMarkers(day)[k], StrInt(day), StrInt(next_day)) :
        k \in 1..4, next_day \in (day + 1)..Min2(day + 1, days)}

\* The markers searched to end day `day`: every marker variant of every later
\* day up to `days`, each obtained by replacing str(day) by str(next_day).
NextDayMarkers(day, days) ==
    {Replace(DayMarkers(day)[k], StrInt(day), StrInt(next_day)) :
        k \in 1..4, next_day \in (day + 1)..days}

\* Mutant: day_content starts out as the whole text instead of "".
DayContentWholeText(text, day, days) ==
    IF ~AnyMarkerIn(text, DayMarkers(day)) THEN text
    ELSE LET rest == AfterFirst(text, FirstMarkerIn(text, DayMarkers(day)))
             next_day_idx == EarliestIdx(rest, NextDayMarkers(day, days))
         IN  IF next_day_idx # 0 THEN Prefix(rest, next_day_idx - 1) ELSE rest

\* day_content of one day: "" when no marker of the day occurs.
DayContent(text, day, days) ==
    IF ~AnyMarkerIn(text, DayMarkers(day)) THEN <<>>
    ELSE LET rest == AfterFirst(text, FirstMarkerIn(text, DayMarkers(day)))
             next_day_idx == EarliestIdx(rest, NextDayMarkers(day, days))
         IN  IF next_day_idx # 0 THEN Prefix(rest, next_day_idx - 1) ELSE rest

\* The first paragraph, else the first line, stripped (lines 462-465, 486-489).
FirstParagraph(s) ==
    IF Contains(s, <<"\n", "\n">>)
    THEN Strip(BeforeFirst(s, <<"\n", "\n">>))
    ELSE Strip(BeforeFirst(s, <<"\n">>))

Range(f) == {f[i] : i \in DOMAIN f}

\* Mutant: without an afternoon marker the morning goes straight to the
\* paragraph split, the evening markers are not looked for.
MorningIgnoringEvening(day_content) ==
    IF ~AnyMarkerIn(day_content, MorningMarkers) THEN None
    ELSE LET rest == AfterFirst(day_content, FirstMarkerIn(day_content, MorningMarkers))
             afternoon_marker_idx == EarliestIdx(rest, Range(AfternoonMarkers))
         IN  IF afternoon_marker_idx # 0
             THEN Some(Strip(Prefix(rest, afternoon_marker_idx - 1)))
             ELSE Some(FirstParagraph(rest))

\* morning: None when no morning marker occurs in the day's content.
Morning(day_content) ==
    IF ~AnyMarkerIn(day_content, MorningMarkers) THEN None
    ELSE LET rest == AfterFirst(day_content, FirstMarkerIn(day_content, MorningMarkers))
             afternoon_marker_idx == EarliestIdx(rest, Range(AfternoonMarkers))
             evening_marker_idx == EarliestIdx(rest, Range(EveningMarkers))
         IN  IF afternoon_marker_idx # 0
             THEN Some(Strip(Prefix(rest, afternoon_marker_idx - 1)))
             ELSE IF evening_marker_idx # 0
                  THEN Some(Strip(Prefix(rest, evening_marker_idx - 1)))
                  ELSE Some(FirstParagraph(rest))

\* Mutant: an afternoon that no evening marker ends is left unset.
AfternoonNeedsEvening(day_content) ==
    IF ~AnyMarkerIn(day_content, AfternoonMarkers) THEN None
    ELSE LET rest == AfterFirst(day_content, FirstMarkerIn(day_content, AfternoonMarkers))
             evening_marker_idx == EarliestIdx(rest, Range(EveningMarkers))
         IN  IF evening_marker_idx # 0
             THEN Some(Strip(Prefix(rest, evening_marker_idx - 1)))
             ELSE None

\* afternoon: None when no afternoon marker occurs in the day's content.
Afternoon(day_content) ==
    IF ~AnyMarkerIn(day_content, AfternoonMarkers) THEN None
    ELSE LET rest == AfterFirst(day_content, FirstMarkerIn(day_content, AfternoonMarkers))
             evening_marker_idx == EarliestIdx(rest, Range(EveningMarkers))
         IN  IF evening_marker_idx # 0
             THEN Some(Strip(Prefix(rest, evening_marker_idx - 1)))
             ELSE Some(FirstParagraph(rest))

\* evening: None when no evening marker occurs in the day's content.
Evening(day_content) ==
    IF ~AnyMarkerIn(day_content, EveningMarkers) THEN None
    ELSE LET rest == AfterFirst(day_content, FirstMarkerIn(day_content, EveningMarkers))
         IN  IF Contains(rest, <<"\n", "\n">>)
             THEN Some(Strip(BeforeFirst(rest, <<"\n", "\n">>)))
             ELSE Some(Strip(rest))

\* Mutant: the date is depart_date + day days.
DayActivityOffByOne(req, day, day_content, selected_hotel) ==
    [day |-> day,
     date |-> AddDays(req.depart_date, day),
     description |-> Strip(day_content),
     morning |-> Morning(day_content),
     afternoon |-> Afternoon(day_content),
     evening |-> Evening(day_content),
     accommodation |-> IF selected_hotel = None THEN None
                       ELSE Some(selected_hotel[1].name)]

\* ItineraryDayActivity built at lines 505-520.
DayActivity(req, day, day_content, selected_hotel) ==
    [day |-> day,
     date |-> IF day > 1 THEN AddDays(req.depart_date, day - 1) ELSE req.depart_date,
     description |-> Strip(day_content),
     morning |-> Morning(day_content),
     afternoon |-> Afternoon(day_content),
     evening |-> Evening(day_content),
     accommodation |-> IF selected_hotel = None THEN None
                       ELSE Some(selected_hotel[1].name)]

RECURSIVE DailyPlanFrom(_, _, _, _)
\* The loop `for day in range(day, days + 1)`: one entry per day whose content
\* is not the empty string.
DailyPlanFrom(day, req, text, selected_hotel) ==
    IF day > req.duration THEN <<>>
    ELSE LET day_content == DayContent(text, day, req.duration)
             rest == DailyPlanFrom(day + 1, req, text, selected_hotel)
         IN  IF day_content # <<>>
             THEN <<DayActivity(req, day, day_content, selected_hotel)>> \o rest
             ELSE rest

\* Mutant: the loop runs one day too far (range(1, days + 2)).
DailyPlanOneTooFar(req, text, selected_hotel) ==
    DailyPlanFrom(1, [req EXCEPT !.duration = req.duration + 1], text, selected_hotel)

DailyPlan(req, text, selected_hotel) == DailyPlanFrom(1, req, text, selected_hotel)

(***************************************************************************)
(* Cost reconciler (_parse_itinerary, lines 522-583).                      *)
(***************************************************************************)
\* Atoms that match [\d,]+(\.\d+)? as a whole.
NumberAtoms ==
    {"0", "1", "2", "3", "4", "5", "6", "7", "8", "9", "50", "450", "600",
     "900.00", "1500", "1800.00", "1,500", "2500", ","}

\* float(group.replace(',', '')): None stands for ValueError (no digit left).
ParseFloat(a) ==
    CASE a = "0" -> Some(0) [] a = "1" -> Some(1) [] a = "2" -> Some(2)
      [] a = "3" -> Some(3) [] a = "4" -> Some(4) [] a = "5" -> Some(5)
      [] a = "6" -> Some(6) [] a = "7" -> Some(7) [] a = "8" -> Some(8)
      [] a = "9" -> Some(9) [] a = "50" -> Some(50) [] a = "450" -> Some(450)
      [] a = "600" -> Some(600) [] a = "900.00" -> Some(900)
      [] a = "1500" -> Some(1500) [] a = "1800.00" -> Some(1800)
      [] a = "1,500" -> Some(1500) [] a = "2500" -> Some(2500)
      [] a = "," -> None

\* f"{x:.2f}" of a whole amount.
Format2f(x) ==
    CASE x = 900 -> "900.00" [] x = 1800 -> "1800.00"

\* Case folding of re.IGNORECASE, on the atoms that have letters.
Lower(a) ==
    CASE a = "Total" -> "total" [] a = "TOTAL" -> "total"
      [] a = "Cost" -> "cost" [] a = "Estimated" -> "estimated"
      [] a = "Budget" -> "budget" [] a = "SGD" -> "sgd"
      [] OTHER -> a

LowerSeq(s) == [i \in DOMAIN s |-> Lower(s[i])]

\* The first position >= k that holds no white space (Len + 1 at the end): \s*
SkipSpace(t, k) ==
    LET stops == {j \in k..(Len(t) + 1) : j = Len(t) + 1 \/ ~IsSpace(t[j])}
    IN  CHOOSE j \in stops : \A i \in stops : j <= i

\* SGD\s*([\d,]+(\.\d+)?) matched at position j: the position of the number
\* atom (group 1), 0 when there is no match at j.
CurrencyAt(t, j, ignorecase) ==
    IF j <= Len(t) /\ (t[j] = "SGD" \/ (ignorecase /\ Lower(t[j]) = "sgd"))
    THEN LET n == SkipSpace(t, j + 1)
         IN  IF n <= Len(t) /\ t[n] \in NumberAtoms THEN n ELSE 0
    ELSE 0

\* The rest of a total pattern matched from position k (right after the
\* literal words): \s*SGD... when lazy is FALSE, .*?SGD... when it is TRUE
\* ('.' matches anything but a line break).  Position of group 1, or 0.
TotalTailAt(t, k, lazy) ==
    IF ~lazy THEN CurrencyAt(t, SkipSpace(t, k), TRUE)
    ELSE LET js == {j \in k..Len(t) :
                       /\ \A i \in k..(j - 1) : t[i] # "\n"
                       /\ CurrencyAt(t, j, TRUE) # 0}
         IN  IF js = {} THEN 0
             ELSE CurrencyAt(t, CHOOSE j \in js : \A i \in js : j <= i, TRUE)

\* cost_patterns, in order: the literal words (case-folded) and whether the
\* gap before SGD is .*? (lazy) or \s*.
CostPatterns ==
    << [words |-> <<"total", " ", "cost", ":">>, lazy |-> FALSE],
       [words |-> <<"total", " ", "cost", ":">>, lazy |-> FALSE],
       [words |-> <<"estimated", " ", "total", " ", "cost">>, lazy |-> TRUE],
       [words |-> <<"total", " ", "budget">>, lazy |-> TRUE],
       [words |-> <<"estimated", " ", "cost">>, lazy |-> TRUE] >>

\* re.search(pattern, text, re.IGNORECASE): position of group 1 of the
\* leftmost match, 0 when the pattern does not match.
SearchTotal(t, pat) ==
    LET folded == LowerSeq(t)
        starts == {i \in 1..Len(t) :
                      /\ OccursAt(folded, pat.words, i)
                      /\ TotalTailAt(t, i + Len(pat.words), pat.lazy) # 0}
    IN  IF starts = {} THEN 0
        ELSE TotalTailAt(t, (CHOOSE i \in starts : \A j \in starts : i <= j)
                                + Len(pat.words), pat.lazy)

\* The patterns whose match parses as a number (the loop breaks at the first
\* of them; a match that raises ValueError passes on to the next pattern).
ParsedPatterns(t) ==
    {k \in 1..Len(CostPatterns) :
        LET n == SearchTotal(t, CostPatterns[k])
        IN  n # 0 /\ ParseFloat(t[n]) # None}

\* extracted_cost after the loop of lines 545-556: None when nothing parsed.
ExtractedCost(t) ==
    LET ks == ParsedPatterns(t)
    IN  IF ks = {} THEN None
        ELSE ParseFloat(t[SearchTotal(t, CostPatterns[CHOOSE k \in ks : \A j \in ks : k <= j])])

RECURSIVE ActivityTotalFrom(_, _)
\* activity_total: re.findall(r'SGD\s*([\d,]+(\.\d+)?)') scanned from position
\* j on, summing the amounts strictly between 0 and 500.
ActivityTotalFrom(t, j) ==
    IF j > Len(t) THEN 0
    ELSE LET n == CurrencyAt(t, j, FALSE)
         IN  IF n = 0 THEN ActivityTotalFrom(t, j + 1)
             ELSE LET cost == ParseFloat(t[n])
                  IN  (IF cost # None /\ cost[1] < 500 /\ cost[1] > 0
                       THEN cost[1] ELSE 0)
                      + ActivityTotalFrom(t, n + 1)

ActivityTotal(t) == ActivityTotalFrom(t, 1)

\* Mutant: the hotel is charged for every day of the trip, not for its nights.
BaseCostPerDay(req, selected_flight, selected_hotel) ==
    (IF selected_flight = None THEN 0 ELSE selected_flight[1].price)
    + (IF selected_hotel = None THEN 0
       ELSE selected_hotel[1].price_per_night * req.duration)

\* actual_cost at line 530: flight price plus hotel price times nights.
BaseCost(req, selected_flight, selected_hotel) ==
    (IF selected_flight = None THEN 0 ELSE selected_flight[1].price)
    + (IF selected_hotel = None THEN 0
       ELSE selected_hotel[1].price_per_night * Nights(req.duration))

\* Mutant: an extracted total never replaces the base cost.
CostAfterExtractionKeepsBase(req, extracted_cost, base) == base

\* actual_cost after lines 545-556: an extracted total within budget replaces it.
CostAfterExtraction(req, extracted_cost, base) ==
    IF extracted_cost # None /\ extracted_cost[1] <= req.budget
    THEN extracted_cost[1] ELSE base

\* Mutant: a total rejected for exceeding the budget counts as not extracted.
NotExtractedOrRejected(req, extracted_cost) ==
    extracted_cost = None \/ extracted_cost[1] = 0 \/ extracted_cost[1] > req.budget

\* `not extracted_cost`: None or 0.0.
NotExtracted(req, extracted_cost) ==
    extracted_cost = None \/ extracted_cost[1] = 0

\* Mutant: the capped activity total is assigned (`=`) instead of added (`+=`).
CostAfterActivitiesAssigned(req, t, extracted_cost, cost) ==
    IF NotExtracted(req, extracted_cost)
    THEN Min2(ActivityTotal(t), req.budget - cost)
    ELSE cost

\* actual_cost after lines 558-578: the capped activity total is added only
\* when `not extracted_cost`.
CostAfterActivities(req, t, extracted_cost, cost) ==
    IF NotExtracted(req, extracted_cost)
    THEN cost + Min2(ActivityTotal(t), req.budget - cost)
    ELSE cost

\* Mutant: the final cap is missing.
ClampMissing(req, cost) == cost

\* Lines 580-583: the cost is capped at the budget.
ClampToBudget(req, cost) == IF cost > req.budget THEN req.budget ELSE cost

\* total_cost of the Itinerary.
TotalCost(req, t, selected_flight, selected_hotel) ==
    LET extracted_cost == ExtractedCost(t)
        base == BaseCost(req, selected_flight, selected_hotel)
    IN  ClampToBudget(req,
            CostAfterActivities(req, t, extracted_cost,
                CostAfterExtraction(req, extracted_cost, base)))

(***************************************************************************)
(* Summary (_parse_itinerary, lines 586-601).                              *)
(***************************************************************************)
SummaryLimit == 200

\* Lines 588-595: what follows the first "# ", up to the first blank line.
HeadingSummary(t) ==
    IF Contains(t, <<"#", " ">>)
    THEN LET rest == AfterFirst(t, <<"#", " ">>)
         IN  IF Contains(rest, <<"\n", "\n">>)
             THEN Strip(BeforeFirst(rest, <<"\n", "\n">>))
             ELSE Strip(rest)
    ELSE <<>>

\* summary; model texts are shorter than 200 characters, so the slice
\* itinerary_text[:200] is taken on atoms.
Summary(t) ==
    IF HeadingSummary(t) # <<>> THEN HeadingSummary(t)
    ELSE IF Contains(t, <<"\n", "\n">>) /\ Strip(BeforeFirst(t, <<"\n", "\n">>)) # <<>>
         THEN Strip(BeforeFirst(t, <<"\n", "\n">>))
         ELSE Strip(Prefix(t, SummaryLimit))

(***************************************************************************)
(* _parse_itinerary as a whole (lines 355-615).                            *)
(***************************************************************************)
AvailableLimit == 5

\* Mutant: the last five candidates are kept instead of the first five.
AvailableTail(xs) ==
    IF Len(xs) > AvailableLimit
    THEN SubSeq(xs, Len(xs) - AvailableLimit + 1, Len(xs)) ELSE xs

\* Mutant: one candidate fewer is kept (xs[:4]).
AvailableShort(xs) ==
    IF Len(xs) > AvailableLimit - 1 THEN SubSeq(xs, 1, AvailableLimit - 1) ELSE xs

\* xs[:5] if len(xs) > 5 else xs
Available(xs) == IF Len(xs) > AvailableLimit THEN SubSeq(xs, 1, AvailableLimit) ELSE xs

ParseItinerary(req, text, flights, hotels, request_id) ==
    LET selected_flight == SelectFlight(req, text, flights)
        selected_hotel == SelectHotel(req, text, hotels, selected_flight)
    IN  [request_id |-> request_id,
         travel_request |-> req,
         selected_flight |-> selected_flight,
         selected_hotel |-> selected_hotel,
         daily_plan |-> DailyPlan(req, text, selected_hotel),
         summary |-> Summary(text),
         total_cost |-> TotalCost(req, text, selected_flight, selected_hotel),
         available_flights |-> Available(flights),
         available_hotels |-> Available(hotels),
         raw_text |-> <<>>]

(***************************************************************************)
(* Itinerary text generator (lines 291-353).                               *)
(***************************************************************************)
\* Mutant: the three lines of a day carry no Morning/Afternoon/Evening label.
RECURSIVE FallbackDaysUnlabelled(_, _)
FallbackDaysUnlabelled(day, duration) ==
    IF day > duration THEN <<>>
    ELSE <<"#", "#", "#", " ", "Day", " ">> \o StrInt(day) \o <<"\n">>
         \o <<"-", " ", "Breakfast at hotel, explore local area", "\n">>
         \o <<"-", " ", "Visit main tourist attractions", "\n">>
         \o <<"-", " ", "Dinner at local restaurant", "\n", "\n">>
         \o FallbackDaysUnlabelled(day + 1, duration)

\* _generate_fallback_itinerary: one "### Day d" section per day.
RECURSIVE FallbackDays(_, _)
FallbackDays(day, duration) ==
    IF day > duration THEN <<>>
    ELSE <<"#", "#", "#", " ", "Day", " ">> \o StrInt(day) \o <<"\n">>
         \o <<"-", " ", "Morning", ":", " ", "Breakfast at hotel, explore local area", "\n">>
         \o <<"-", " ", "Afternoon", ":", " ", "Visit main tourist attractions", "\n">>
         \o <<"-", " ", "Evening", ":", " ", "Dinner at local restaurant", "\n", "\n">>
         \o FallbackDays(day + 1, duration)

GenerateFallbackItinerary(req) ==
    <<"#", " ", "Trip", " ", "to", " ", req.destination, "\n", "\n">>
    \o <<"#", "#", " ", "Overview", "\n">>
    \o <<"A", " ">> \o StrInt(req.duration)
    \o <<"-", "day", " ", "trip", " ", "to", " ", req.destination, " ", "from", " ",
         req.origin, ".", "\n", "\n">>
    \o <<"#", "#", " ", "Suggested", " ", "Flight", "\n">>
    \o <<"Economy class flight", " ", "from", " ", req.origin, " ", "to", " ",
         req.destination, ".", "\n", "\n">>
    \o <<"#", "#", " ", "Suggested", " ", "Accommodation", "\n">>
    \o <<"Standard hotel in", " ", req.destination, " ", "city center", ".", "\n", "\n">>
    \o <<"#", "#", " ", "Day", "-", "by", "-", "Day", " ", "Itinerary", "\n">>
    \o FallbackDays(1, req.duration)
    \o <<"#", "#", " ", "Estimated", " ", "Budget", "\n">>
    \o <<"Total", " ", "estimated", " ", "cost", ":", " ", "SGD", " ",
         Format2f((req.budget * 9) \div 10), "\n">>

\* What the completion call can do: return a message with text content,
\* return a message whose content is None, or raise.
LLMText(raw) == [kind |-> "text", content |-> raw]
LLMNoContent == [kind |-> "no_content", content |-> <<>>]
LLMError == [kind |-> "error", content |-> <<>>]

\* Mutant: no except clause, a failed completion call propagates.
GenerateItineraryTextNoFallback(req, llm) ==
    IF llm.kind = "text"
    THEN [raised |-> FALSE, text |-> Strip(llm.content)]
    ELSE [raised |-> TRUE, text |-> <<>>]

\* _generate_itinerary_text: the stripped completion, or the fallback when
\* anything in the try block raises (content None has no strip()).
GenerateItineraryText(req, llm) ==
    IF llm.kind = "text"
    THEN [raised |-> FALSE, text |-> Strip(llm.content)]
    ELSE [raised |-> FALSE, text |-> GenerateFallbackItinerary(req)]

(***************************************************************************)
(* State.                                                                  *)
(***************************************************************************)
VARIABLES
    pc,              \* position of the invocation in progress
    travel_request,  \* its TravelRequest
    flights,         \* its flight candidates
    hotels,          \* its hotel candidates
    llm_calls,       \* completion calls issued by the invocation
    llm_failed,      \* whether the completion call failed
    itinerary_text,  \* the generated (or fallback) text
    itinerary,       \* Optional: the Itinerary the invocation produced
    response,        \* what the caller last received
    itineraries,     \* self._itineraries: request_id -> Itinerary
    next_id,         \* stands for uuid.uuid4(): the next fresh request id
    tasks            \* the coroutines in flight when requests overlap

vars == <<pc, travel_request, flights, hotels, llm_calls, llm_failed,
          itinerary_text, itinerary, response, itineraries, next_id, tasks>>

Origin == "Singapore"
Destination == "Tokyo"
June1 == [y |-> 2024, m |-> 6, d |-> 1]

(***************************************************************************)
(* Input pools.                                                            *)
(***************************************************************************)
Budgets == {1000, 2000}
Durations == 1..MaxDuration

\* Two numbered flights of one airline and a flight without a number.
FlightPool ==
    {FlightOption("SIA", Some("SQ123"), 400),
     FlightOption("SIA", Some("SQ321"), 650),
     FlightOption("TR", None, 500)}

HotelPool ==
    {HotelOption(<<"Hilton">>, 80), HotelOption(<<"Ritz">>, 300)}

\* Pieces of text that mention (or do not mention) the candidates.
SelectChunks ==
    {<<"SIA", " ", "SQ123", " ">>, <<"SIA", " ", "SQ321", " ">>,
     <<"Hilton", " ">>, <<"Ritz", " ">>, <<"TR", " ">>}

TextsOf(chunks, n) == {Concat(cs) : cs \in SeqsUpTo(chunks, n)}

Requests(budgets, durations, dates) ==
    {TravelRequest(Origin, Destination, dt, du, b) :
        dt \in dates, du \in durations, b \in budgets}

(***************************************************************************)
(* _parse_itinerary applied to inputs drawn from the pools.                *)
(***************************************************************************)
\* The state in which _parse_itinerary is about to run on the given inputs.
ParseInit(req, text, fl, ho) ==
    /\ pc = "parse_only"
    /\ travel_request = req
    /\ flights = fl
    /\ hotels = ho
    /\ llm_calls = 0
    /\ llm_failed = FALSE
    /\ itinerary_text = text
    /\ itinerary = None
    /\ response = [kind |-> "none"]
    /\ itineraries = <<>>
    /\ next_id = 1
    /\ tasks = <<>>

\* One call of _parse_itinerary: it returns an Itinerary, or raises.
Parse ==
    /\ pc = "parse_only"
    /\ IF SelectionRaises(flights, hotels)
       THEN /\ pc' = "raised"
            /\ itinerary' = None
       ELSE /\ pc' = "parsed"
            /\ itinerary' = Some(ParseItinerary(travel_request, itinerary_text,
                                                flights, hotels, next_id))
    /\ next_id' = next_id + 1
    /\ UNCHANGED <<travel_request, flights, hotels, llm_calls, llm_failed,
                   itinerary_text, response, itineraries, tasks>>

InitSelect ==
    \E req \in Requests(Budgets, {1, 3}, {June1}),
       text \in TextsOf(SelectChunks, MaxMentions),
       fl \in SeqsUpTo(FlightPool, MaxFlights),
       ho \in SeqsUpTo(HotelPool, MaxHotels) :
        ParseInit(req, text, fl, ho)

SpecSelect == InitSelect /\ [][Parse]_vars

(***************************************************************************)
(* Properties of option selection.                                         *)
(***************************************************************************)
Parsed == pc = "parsed"
Result == itinerary[1]
Budget == travel_request.budget

\* price <= 0.6 x budget
WithinFlightShare(f) == f.price * 10 <= Budget * 6

\* price_per_night <= (budget - selected flight price) / nights x 0.7
WithinHotelShare(h, sf) ==
    h.price_per_night * Max2(1, travel_request.duration - 1) * 10
        <= (Budget - (IF sf = None THEN 0 ELSE sf[1].price)) * 7

CheapestFlight(f) == \A i \in 1..Len(flights) : f.price <= flights[i].price
CheapestHotel(h) == \A i \in 1..Len(hotels) : h.price_per_night <= hotels[i].price_per_night

\* "<airline> <flight_number>" as the text would show it.
Mentioned(f) ==
    Contains(itinerary_text,
             <<f.airline, " ", IF f.flight_number = None THEN "None" ELSE f.flight_number[1]>>)

\* C2 as stated: every non-null selection, the cheapest default included,
\* satisfies its acceptance rule (flight within 0.6 x budget, hotel within
\* 0.7 of the per-night remainder).
C2_SelectionAlwaysAccepted ==
    Parsed =>
        /\ (Result.selected_flight # None =>
               WithinFlightShare(Result.selected_flight[1]))
        /\ (Result.selected_hotel # None =>
               WithinHotelShare(Result.selected_hotel[1], Result.selected_flight))

\* C2 amended: a non-null selected flight satisfies the flight acceptance rule
\* or is a cheapest flight of the list (the default); a non-null selected hotel
\* satisfies the hotel acceptance rule or is a cheapest hotel of the list.
C2_SelectionAcceptedOrCheapest ==
    Parsed =>
        /\ (Result.selected_flight # None =>
               (\/ WithinFlightShare(Result.selected_flight[1])
                \/ CheapestFlight(Result.selected_flight[1])))
        /\ (Result.selected_hotel # None =>
               (\/ WithinHotelShare(Result.selected_hotel[1], Result.selected_flight)
                \/ CheapestHotel(Result.selected_hotel[1])))

\* Both selections were made by the text override, not by default.
C2_Witness ==
    /\ Parsed
    /\ Result.selected_flight # None /\ ~CheapestFlight(Result.selected_flight[1])
    /\ Result.selected_hotel # None /\ ~CheapestHotel(Result.selected_hotel[1])

\* Flight i of the list is mentioned in the text and within 0.6 x budget.
Qualifies(i) == Mentioned(flights[i]) /\ WithinFlightShare(flights[i])

\* C4 as stated: every listed flight with a flight number whose identifier is
\* in the text and whose price is within 0.6 x budget is the selected flight.
C4_MentionedFlightSelected ==
    Parsed =>
        (\A i \in 1..Len(flights) :
            ((flights[i].flight_number # None /\ Qualifies(i))
                => Result.selected_flight = Some(flights[i])))

\* C4 amended: when some listed flight is mentioned and within 0.6 x budget,
\* the selected flight is the earliest such flight in list order.
C4_FirstMentionedFlightSelected ==
    Parsed =>
        (\A i \in 1..Len(flights) :
            ((Qualifies(i) /\ \A j \in 1..(i - 1) : ~Qualifies(j))
                => Result.selected_flight = Some(flights[i])))

\* A mentioned, affordable flight replaced a cheaper default.
C4_Witness ==
    /\ Parsed
    /\ \E i \in 1..Len(flights) :
          /\ flights[i].flight_number # None
          /\ Qualifies(i)
          /\ Result.selected_flight = Some(flights[i])
          /\ ~CheapestFlight(flights[i])

\* C5: a selected hotel whose name is not in the text is a cheapest hotel of
\* the list (the default).
C5_UnmentionedHotelOnlyByDefault ==
    Parsed =>
        ((Result.selected_hotel # None
          /\ ~Contains(itinerary_text, Result.selected_hotel[1].name))
            => CheapestHotel(Result.selected_hotel[1]))

\* A dearer hotel that would pass the price rule is absent from the text, and
\* the cheapest one is selected.
C5_Witness ==
    /\ Parsed
    /\ Result.selected_hotel # None
    /\ \E i \in 1..Len(hotels) :
          /\ ~Contains(itinerary_text, hotels[i].name)
          /\ hotels[i].price_per_night > Result.selected_hotel[1].price_per_night
          /\ WithinHotelShare(hotels[i], Result.selected_flight)

\* C6: with an empty flight list or an empty hotel list _parse_itinerary
\* returns an Itinerary (it does not raise), and the selection of an empty
\* list is null.
C6_EmptyListsGiveNullSelection ==
    (pc # "parse_only" /\ (flights = <<>> \/ hotels = <<>>)) =>
        /\ Parsed
        /\ itinerary # None
        /\ (flights = <<>> => Result.selected_flight = None)
        /\ (hotels = <<>> => Result.selected_hotel = None)

\* Parsing finished with one list empty and the other not.
C6_Witness ==
    /\ Parsed
    /\ flights = <<>>
    /\ Result.selected_flight = None
    /\ Result.selected_hotel # None

(***************************************************************************)
(* The day-segment parser on texts built from day and segment markers.     *)
(***************************************************************************)
Feb28 == [y |-> 2024, m |-> 2, d |-> 28]

\* Day markers with and without following content, and segment lines.
DayChunks ==
    {<<"#", "#", "#", " ", "Day", " ", "1", "\n">>,
     <<"Day", " ", "1", ":">>,
     <<"#", "#", " ", "Day", " ", "2">>,
     <<"Day", " ", "2", " ", "-", " ">>,
     <<"Day", " ", "3", ":", " ">>,
     <<"Morning", ":", " ", "walk", "\n">>,
     <<"**", "Afternoon", ":", "**", " ", "museum", "\n">>,
     <<"Evening", ":", " ", "dinner", "\n", "\n">>,
     <<"\n">>}

InitDays ==
    \E req \in Requests({1000}, Durations, {June1, Feb28}),
       text \in TextsOf(DayChunks, MaxDayChunks) :
        ParseInit(req, text,
                  <<FlightOption("SIA", Some("SQ123"), 400)>>,
                  <<HotelOption(<<"Hilton">>, 80)>>)

SpecDays == InitDays /\ [][Parse]_vars

Plan == Result.daily_plan
Duration == travel_request.duration

\* One of "### Day d", "## Day d", "Day d:", "Day d -" occurs in the text.
HasDayMarker(d) ==
    \/ Contains(itinerary_text, <<"#", "#", "#", " ", "Day", " ">> \o StrInt(d))
    \/ Contains(itinerary_text, <<"#", "#", " ", "Day", " ">> \o StrInt(d))
    \/ Contains(itinerary_text, <<"Day", " ">> \o StrInt(d) \o <<":">>)
    \/ Contains(itinerary_text, <<"Day", " ">> \o StrInt(d) \o <<" ", "-">>)

\* C3: daily_plan has at most `duration` entries, every day is in
\* 1..duration, and the days are strictly increasing (so none occurs twice).
C3_DailyPlanDaysOrderedAndBounded ==
    Parsed =>
        /\ Len(Plan) <= Duration
        /\ \A i \in 1..Len(Plan) : Plan[i].day \in 1..Duration
        /\ \A i \in 1..Len(Plan) : \A j \in 1..Len(Plan) :
               (i < j => Plan[i].day < Plan[j].day)

\* Two days were produced and one day of the trip was skipped.
C3_Witness ==
    /\ Parsed
    /\ Duration = 3
    /\ Len(Plan) = 2

\* Number of days from 1 January of the date's year.
RECURSIVE DaysBefore(_, _)
DaysBefore(y, m) == IF m = 1 THEN 0 ELSE DaysInMonth(y, m - 1) + DaysBefore(y, m - 1)

DayOfYear(dt) == DaysBefore(dt.y, dt.m) + dt.d

\* Every entry of the plan is dated depart_date + (day - 1) days.
DatesFollowDeparture ==
    \A i \in 1..Len(Plan) :
        /\ Plan[i].date.y = travel_request.depart_date.y
        /\ DayOfYear(Plan[i].date)
               = DayOfYear(travel_request.depart_date) + (Plan[i].day - 1)

\* C8 as stated: a marker for every day 1..duration gives exactly `duration`
\* entries, each dated depart_date + (day - 1) days.
C8_MarkersGiveAllDays ==
    Parsed =>
        ((\A d \in 1..Duration : HasDayMarker(d))
            => (Len(Plan) = Duration /\ DatesFollowDeparture))

\* The marker the parser uses for day d: the first of the four variants, in
\* priority order, that occurs in the text.
UsedMarker(d) ==
    IF Contains(itinerary_text, <<"#", "#", "#", " ", "Day", " ">> \o StrInt(d))
    THEN <<"#", "#", "#", " ", "Day", " ">> \o StrInt(d)
    ELSE IF Contains(itinerary_text, <<"#", "#", " ", "Day", " ">> \o StrInt(d))
         THEN <<"#", "#", " ", "Day", " ">> \o StrInt(d)
         ELSE IF Contains(itinerary_text, <<"Day", " ">> \o StrInt(d) \o <<":">>)
              THEN <<"Day", " ">> \o StrInt(d) \o <<":">>
              ELSE <<"Day", " ">> \o StrInt(d) \o <<" ", "-">>

\* A marker (any variant) of a day after d starts at position p of the text.
LaterDayMarkerAt(d, p) ==
    \E e \in (d + 1)..Duration :
        \/ OccursAt(itinerary_text, <<"#", "#", "#", " ", "Day", " ">> \o StrInt(e), p)
        \/ OccursAt(itinerary_text, <<"#", "#", " ", "Day", " ">> \o StrInt(e), p)
        \/ OccursAt(itinerary_text, <<"Day", " ">> \o StrInt(e) \o <<":">>, p)
        \/ OccursAt(itinerary_text, <<"Day", " ">> \o StrInt(e) \o <<" ", "-">>, p)

\* The first occurrence of day d's marker is followed by some text that does
\* not begin with a marker of a later day.
MarkerHasContent(d) ==
    LET p == Find(itinerary_text, UsedMarker(d)) + Len(UsedMarker(d))
    IN  p <= Len(itinerary_text) /\ ~LaterDayMarkerAt(d, p)

\* C8 amended: when every day 1..duration has a marker whose first occurrence
\* (of the highest-priority variant present) is neither at the end of the text
\* nor directly followed by a marker of a later day, daily_plan has exactly
\* `duration` entries; and every entry is dated depart_date + (day - 1) days.
C8_MarkersWithContentGiveAllDays ==
    Parsed =>
        /\ ((\A d \in 1..Duration : HasDayMarker(d) /\ MarkerHasContent(d))
               => Len(Plan) = Duration)
        /\ DatesFollowDeparture

\* Three marked days from 2024-06-01 give entries dated 1, 2 and 3 June.
C8_Witness ==
    /\ Parsed
    /\ Duration = 3
    /\ travel_request.depart_date = June1
    /\ \A d \in 1..3 : HasDayMarker(d) /\ MarkerHasContent(d)
    /\ Len(Plan) = 3
    /\ \A d \in 1..3 : Plan[d].date = [y |-> 2024, m |-> 6, d |-> d]

\* C9: a day without any of its four markers has no entry, no day having a
\* marker gives the empty plan, and an Itinerary is returned all the same.
C9_UnmarkedDaySkipped ==
    pc # "parse_only" =>
        /\ Parsed
        /\ itinerary # None
        /\ \A d \in 1..Duration :
               (~HasDayMarker(d) => \A i \in 1..Len(Plan) : Plan[i].day # d)
        /\ ((\A d \in 1..Duration : ~HasDayMarker(d)) => Plan = <<>>)

\* A non-empty text without a marker for day 1, and still an entry for a
\* later day.
C9_Witness ==
    /\ Parsed
    /\ ~HasDayMarker(1)
    /\ itinerary_text # <<>>
    /\ Len(Plan) >= 1

(***************************************************************************)
(* The cost reconciler on texts built from totals and currency mentions.   *)
(***************************************************************************)
\* Explicit totals above, within and at zero; a lazy "estimated cost" total;
\* a total whose number has no digit; mentions below and above 500.
CostChunks ==
    {<<"Total", " ", "cost", ":", " ", "SGD", " ", "2500", "\n">>,
     <<"Total", " ", "Cost", ":", " ", "SGD", " ", "1,500", "\n">>,
     <<"total", " ", "cost", ":", " ", "SGD", " ", "0", "\n">>,
     <<"Estimated", " ", "cost", " ", "about", " ", "SGD", " ", "900.00", "\n">>,
     <<"Total", " ", "cost", ":", " ", "SGD", " ", ",", " ">>,
     <<"SGD", " ", "50", " ">>,
     <<"SGD", " ", "450", " ">>,
     <<"SGD", "600", " ">>}

CostFlightLists ==
    {<<>>, <<FlightOption("SIA", Some("SQ123"), 400)>>,
     <<FlightOption("SIA", Some("SQ321"), 650)>>}

CostHotelLists ==
    {<<>>, <<HotelOption(<<"Hilton">>, 80)>>, <<HotelOption(<<"Ritz">>, 300)>>}

InitCost ==
    \E req \in Requests(Budgets, {1, 3}, {June1}),
       text \in TextsOf(CostChunks, MaxCostChunks),
       fl \in CostFlightLists,
       ho \in CostHotelLists :
        ParseInit(req, text, fl, ho)

SpecCost == InitCost /\ [][Parse]_vars

\* Selected flight price plus selected hotel price times nights.
SelectionCost ==
    (IF Result.selected_flight = None THEN 0 ELSE Result.selected_flight[1].price)
    + (IF Result.selected_hotel = None THEN 0
       ELSE Result.selected_hotel[1].price_per_night * Max2(1, Duration - 1))

\* C1: the reconciled total is within [0, budget].
C1_TotalWithinBudget ==
    Parsed => (0 <= Result.total_cost /\ Result.total_cost <= Budget)

\* The selections alone cost more than the budget and the total is the budget.
C1_Witness ==
    /\ Parsed
    /\ SelectionCost > Budget
    /\ Result.total_cost = Budget

\* The explicit total found in the text exceeds the budget.
TotalRejected ==
    LET extracted_cost == ExtractedCost(itinerary_text)
    IN  extracted_cost # None /\ extracted_cost[1] > Budget

\* C7 as stated: a rejected explicit total leaves the total at base cost plus
\* the capped sum of the currency mentions under 500.
C7_RejectedTotalFallsThrough ==
    (Parsed /\ TotalRejected) =>
        Result.total_cost
            = Min2(Budget,
                   SelectionCost + Min2(ActivityTotal(itinerary_text),
                                        Budget - SelectionCost))

\* C7 amended: a rejected explicit total leaves the total at the base cost
\* capped at the budget; the currency mentions are not added.
C7_RejectedTotalKeepsBaseCost ==
    (Parsed /\ TotalRejected) =>
        Result.total_cost = Min2(Budget, SelectionCost)

\* A rejected total, mentions that would fit in the budget, and a total that
\* is the base cost alone.
C7_Witness ==
    /\ Parsed
    /\ TotalRejected
    /\ ActivityTotal(itinerary_text) > 0
    /\ SelectionCost > 0
    /\ SelectionCost + ActivityTotal(itinerary_text) <= Budget
    /\ Result.total_cost = SelectionCost

(***************************************************************************)
(* The service: generate_itinerary (lines 135-196) and create_itinerary    *)
(* (lines 198-220), one invocation at a time.                              *)
(***************************************************************************)
ServiceRequests == Requests({1000}, {1, 2}, {June1})

\* What the flight search can return.
FlightResults ==
    {<<>>,
     <<FlightOption("SIA", Some("SQ321"), 650), FlightOption("SIA", Some("SQ123"), 400)>>}

\* What the hotel search can return: raw records with a name and a rating.
HotelResults ==
    {<<>>, <<[name |-> <<"Ritz">>, rating |-> 5]>>}

\* random.uniform(0.8, 1.2), in percent: the two ends of the range.
Jitters == {80, 120}

HotelLimit == 10

\* Lines 166-182: at most 10 records become HotelOptions, priced
\* 100 + stars * 50 * jitter.
ConvertHotels(hotels_data, jitter) ==
    [i \in 1..Min2(Len(hotels_data), HotelLimit) |->
        HotelOption(hotels_data[i].name,
                    100 + (hotels_data[i].rating * 50 * jitter[i]) \div 100)]

\* Raw completions: one with surrounding white space, a heading, mentions,
\* a day and a total; one with two days and no total.
Completions ==
    {<<" ", "#", " ", "Tokyo", "\n", "\n", "SIA", " ", "SQ123", " ", "Ritz", "\n",
       "#", "#", "#", " ", "Day", " ", "1", "\n", "Morning", ":", " ", "walk", "\n",
       "Total", " ", "cost", ":", " ", "SGD", " ", "900.00", "\n", " ">>,
     <<"Day", " ", "1", ":", " ", "walk", "\n", "Day", " ", "2", ":", " ", "SGD", " ", "50">>}

LLMOutcomes == {LLMText(raw) : raw \in Completions} \cup {LLMNoContent, LLMError}

Init ==
    /\ pc = "idle"
    /\ travel_request = None
    /\ flights = <<>>
    /\ hotels = <<>>
    /\ llm_calls = 0
    /\ llm_failed = FALSE
    /\ itinerary_text = <<>>
    /\ itinerary = None
    /\ response = [kind |-> "none"]
    /\ itineraries = <<>>
    /\ next_id = 1
    /\ tasks = <<>>

\* generate_itinerary, lines 145-156: the flight search returns nothing.
NoFlightsFound ==
    /\ pc = "idle"
    /\ next_id <= MaxRequests
    /\ \E req \in ServiceRequests :
          /\ travel_request' = req
          /\ flights' = <<>>
          /\ hotels' = <<>>
    /\ response' = [kind |-> "http_404", detail |-> "No flights found"]
    /\ llm_calls' = 0
    /\ llm_failed' = FALSE
    /\ itinerary_text' = <<>>
    /\ itinerary' = None
    /\ UNCHANGED <<pc, itineraries, next_id, tasks>>

\* generate_itinerary, lines 158-164: the hotel search returns nothing.
NoHotelsFound ==
    /\ pc = "idle"
    /\ next_id <= MaxRequests
    /\ \E req \in ServiceRequests, fl \in FlightResults \ {<<>>} :
          /\ travel_request' = req
          /\ flights' = fl
          /\ hotels' = <<>>
    /\ response' = [kind |-> "http_404", detail |-> "No hotels found"]
    /\ llm_calls' = 0
    /\ llm_failed' = FALSE
    /\ itinerary_text' = <<>>
    /\ itinerary' = None
    /\ UNCHANGED <<pc, itineraries, next_id, tasks>>

\* Mutant: the two `if not ...: raise` checks are missing, so empty search
\* results go on to create_itinerary.
StartGenerationUnchecked ==
    /\ pc = "idle"
    /\ next_id <= MaxRequests
    /\ \E req \in ServiceRequests, fl \in FlightResults, hd \in HotelResults :
          \E jitter \in [1..Len(hd) -> Jitters] :
              /\ travel_request' = req
              /\ flights' = fl
              /\ hotels' = ConvertHotels(hd, jitter)
    /\ pc' = "llm"
    /\ llm_calls' = 0
    /\ llm_failed' = FALSE
    /\ itinerary_text' = <<>>
    /\ itinerary' = None
    /\ response' = [kind |-> "none"]
    /\ UNCHANGED <<itineraries, next_id, tasks>>

\* generate_itinerary, lines 145-191: both searches return candidates, the
\* hotels are priced, and create_itinerary reaches the completion call.
StartGeneration ==
    /\ pc = "idle"
    /\ next_id <= MaxRequests
    /\ \E req \in ServiceRequests, fl \in FlightResults \ {<<>>},
          hd \in HotelResults \ {<<>>} :
          \E jitter \in [1..Len(hd) -> Jitters] :
              /\ travel_request' = req
              /\ flights' = fl
              /\ hotels' = ConvertHotels(hd, jitter)
    /\ pc' = "llm"
    /\ llm_calls' = 0
    /\ llm_failed' = FALSE
    /\ itinerary_text' = <<>>
    /\ itinerary' = None
    /\ response' = [kind |-> "none"]
    /\ UNCHANGED <<itineraries, next_id, tasks>>

\* _generate_itinerary_text: the completion call is issued and returns or
\* fails; an exception that escapes ends the request with an error.
CompleteLLMCall ==
    /\ pc = "llm"
    /\ \E llm \in LLMOutcomes :
          LET out == GenerateItineraryText(travel_request, llm)
          IN  /\ llm_failed' = (llm.kind # "text")
              /\ IF out.raised
                 THEN /\ pc' = "idle"
                      /\ response' = [kind |-> "http_500"]
                      /\ itinerary_text' = <<>>
                 ELSE /\ pc' = "parse"
                      /\ response' = response
                      /\ itinerary_text' = out.text
    /\ llm_calls' = llm_calls + 1
    /\ UNCHANGED <<travel_request, flights, hotels, itinerary, itineraries, next_id,
                   tasks>>

\* create_itinerary, lines 213-220: the parsed Itinerary with the candidate
\* prefixes and the raw text.
CreateItinerary(req, text, fl, ho, request_id) ==
    [ParseItinerary(req, text, fl, ho, request_id) EXCEPT
        !.available_flights = Available(fl),
        !.available_hotels = Available(ho),
        !.raw_text = text]

\* Mutant: the store is rebuilt around the new entry, dropping the others.
StoreItineraryReplacing(store, it) == [id \in {it.request_id} |-> it]

\* self._itineraries[itinerary.request_id] = itinerary
StoreItinerary(store, it) ==
    [id \in (DOMAIN store) \cup {it.request_id} |->
        IF id = it.request_id THEN it ELSE store[id]]

\* The rest of the invocation: parse, store under the fresh id, return.
ParseAndStore ==
    /\ pc = "parse"
    /\ IF SelectionRaises(flights, hotels)
       THEN /\ response' = [kind |-> "http_500"]
            /\ itinerary' = None
            /\ itineraries' = itineraries
       ELSE LET it == CreateItinerary(travel_request, itinerary_text,
                                      flights, hotels, next_id)
            IN  /\ itinerary' = Some(it)
                /\ itineraries' = StoreItinerary(itineraries, it)
                /\ response' = [kind |-> "itinerary", itinerary |-> it]
    /\ pc' = "idle"
    /\ next_id' = next_id + 1
    /\ UNCHANGED <<travel_request, flights, hotels, llm_calls, llm_failed,
                   itinerary_text, tasks>>

Next ==
    \/ NoFlightsFound
    \/ NoHotelsFound
    \/ StartGeneration
    \/ CompleteLLMCall
    \/ ParseAndStore

Spec == Init /\ [][Next]_vars

\* C10: text generation issues exactly one completion call per itinerary and
\* never raises: no request ends with an error from it, the text parsed after
\* a failed call is the fallback template, and the Itinerary returned is the
\* stored one, built from that text after exactly one call.
C10_OneCallAndFallback ==
    /\ response.kind # "http_500"
    /\ (pc = "llm" => llm_calls = 0)
    /\ (pc = "parse" =>
           /\ llm_calls = 1
           /\ (llm_failed => itinerary_text = GenerateFallbackItinerary(travel_request)))
    /\ (response.kind = "itinerary" =>
           /\ llm_calls = 1
           /\ response.itinerary.request_id \in DOMAIN itineraries
           /\ itineraries[response.itinerary.request_id] = response.itinerary
           /\ response.itinerary.raw_text = itinerary_text
           /\ (llm_failed =>
                  response.itinerary.raw_text = GenerateFallbackItinerary(travel_request)))

\* The completion call failed, and an Itinerary with one entry per day of the
\* fallback template was stored and returned.
C10_Witness ==
    /\ pc = "idle"
    /\ llm_failed
    /\ llm_calls = 1
    /\ response.kind = "itinerary"
    /\ response.itinerary.request_id \in DOMAIN itineraries
    /\ Len(response.itinerary.daily_plan) = travel_request.duration

(***************************************************************************)
(* create_itinerary (lines 198-220) called directly, on any candidate      *)
(* lists, the empty ones included.                                         *)
(***************************************************************************)
FlightNumbers == <<"SQ321", "SQ123", "SQ11", "SQ12", "SQ13", "SQ14", "SQ15", "SQ16">>
HotelNames == <<"Ritz", "Hilton", "Hyatt", "Ibis", "Plaza", "Savoy", "Astor", "Grand">>

\* n flights of one airline, dearest first, so that the order of the list is
\* not the order of the prices.
CandidateFlights(n) ==
    [i \in 1..n |-> FlightOption("SIA", Some(FlightNumbers[i]), 700 - 50 * i)]

\* n hotels, dearest first.
CandidateHotels(n) ==
    [i \in 1..n |-> HotelOption(<<HotelNames[i]>>, 300 - 20 * i)]

\* Day trips, short trips, and a trip long enough for two-digit day numbers.
CreateRequests == Requests({1000}, {1, 2, LongDuration}, {June1})

\* Raw completions: the two of the service, an empty one, one of white space
\* only, and one that names no amount.
CreateCompletions ==
    Completions
    \cup {<<>>, <<" ", "\n", " ">>,
          <<"#", " ", "Tokyo", "\n", "\n", "Day", " ", "1", ":", " ", "walk", "\n">>}

CreateOutcomes == {LLMText(raw) : raw \in CreateCompletions} \cup {LLMNoContent, LLMError}

InitCreate ==
    \E req \in CreateRequests, nf \in 0..MaxCandidates, nh \in 0..MaxCandidates :
        /\ pc = "create_only"
        /\ travel_request = req
        /\ flights = CandidateFlights(nf)
        /\ hotels = CandidateHotels(nh)
        /\ llm_calls = 0
        /\ llm_failed = FALSE
        /\ itinerary_text = <<>>
        /\ itinerary = None
        /\ response = [kind |-> "none"]
        /\ itineraries = <<>>
        /\ next_id = 1
        /\ tasks = <<>>

\* One call of create_itinerary: the text is generated, parsed, and the
\* Itinerary returned with the candidate prefixes and the raw text.
Create ==
    /\ pc = "create_only"
    /\ \E llm \in CreateOutcomes :
          LET out == GenerateItineraryText(travel_request, llm)
          IN  /\ llm_failed' = (llm.kind # "text")
              /\ itinerary_text' = out.text
              /\ IF out.raised \/ SelectionRaises(flights, hotels)
                 THEN /\ pc' = "raised"
                      /\ itinerary' = None
                      /\ response' = [kind |-> "exception"]
                 ELSE LET it == CreateItinerary(travel_request, out.text,
                                                flights, hotels, next_id)
                      IN  /\ pc' = "created"
                          /\ itinerary' = Some(it)
                          /\ response' = [kind |-> "itinerary", itinerary |-> it]
    /\ llm_calls' = llm_calls + 1
    /\ next_id' = next_id + 1
    /\ UNCHANGED <<travel_request, flights, hotels, itineraries, tasks>>

SpecCreate == InitCreate /\ [][Create]_vars

Created == pc = "created"
NoCandidates == flights = <<>> /\ hotels = <<>>

\* C11 as stated: create_itinerary never raises, and with empty flight and
\* hotel lists the Itinerary has null selections and total_cost = 0, whether
\* the completion call succeeded or failed.
C11_EmptyListsGiveZeroCost ==
    /\ pc # "raised"
    /\ ((Created /\ NoCandidates) =>
           /\ Result.selected_flight = None
           /\ Result.selected_hotel = None
           /\ Result.total_cost = 0)

\* C11 amended: create_itinerary never raises, and with empty flight and
\* hotel lists the Itinerary has null selections and a total_cost read from
\* the text alone: within [0, budget], 0 when the text names no SGD amount,
\* and 0.9 x budget after a failed completion call (the budget line of the
\* fallback text is taken as the explicit total).
C11_EmptyListsGiveNullSelectionAndTextCost ==
    /\ pc # "raised"
    /\ ((Created /\ NoCandidates) =>
           /\ Result.selected_flight = None
           /\ Result.selected_hotel = None
           /\ Result.total_cost >= 0
           /\ Result.total_cost <= Budget
           /\ (~Contains(LowerSeq(itinerary_text), <<"sgd">>) => Result.total_cost = 0)
           /\ (llm_failed => Result.total_cost * 10 = Budget * 9))

\* Empty lists and a failed completion call: null selections, and the total
\* is the fallback's budget line.
C11_Witness ==
    /\ Created
    /\ NoCandidates
    /\ llm_failed
    /\ Result.selected_flight = None
    /\ Result.selected_hotel = None
    /\ Result.total_cost = 900

\* C17 as stated: the summary of every Itinerary create_itinerary returns is
\* non-empty, whatever text the generator returned.
C17_SummaryNeverEmpty ==
    Created => Result.summary # <<>>

ReferenceIdentifier(f) ==
    IF f.flight_number = None THEN <<f.airline>>
    ELSE <<f.airline, " ", f.flight_number[1]>>

\* Flight i is accepted by the reference rule.
ReferenceQualifies(i) ==
    /\ Contains(itinerary_text, ReferenceIdentifier(flights[i]))
    /\ WithinFlightShare(flights[i])

\* The first element of a list with the least value of its price field.
FirstCheapestFlight ==
    flights[CHOOSE i \in 1..Len(flights) :
                /\ CheapestFlight(flights[i])
                /\ \A j \in 1..(i - 1) : ~CheapestFlight(flights[j])]

FirstCheapestHotel ==
    hotels[CHOOSE i \in 1..Len(hotels) :
               /\ CheapestHotel(hotels[i])
               /\ \A j \in 1..(i - 1) : ~CheapestHotel(hotels[j])]

ReferenceFlight ==
    LET q == {i \in 1..Len(flights) : ReferenceQualifies(i)}
    IN  IF q # {} THEN Some(flights[CHOOSE i \in q : \A j \in q : i <= j])
        ELSE IF flights = <<>> THEN None
        ELSE Some(FirstCheapestFlight)

\* The hotel rule, with the ceiling computed from the flight sf.
ReferenceHotel(sf) ==
    LET q == {i \in 1..Len(hotels) :
                 /\ Contains(itinerary_text, hotels[i].name)
                 /\ WithinHotelShare(hotels[i], sf)}
    IN  IF q # {} THEN Some(hotels[CHOOSE i \in q : \A j \in q : i <= j])
        ELSE IF hotels = <<>> THEN None
        ELSE Some(FirstCheapestHotel)

\* C19 as stated: a flight without a flight number whose airline code is in
\* the text and whose price is within 0.6 x budget is selected (when no
\* earlier flight of the list is accepted before it).
C19_BareAirlineMatches ==
    Parsed =>
        (\A i \in 1..Len(flights) :
            ((/\ flights[i].flight_number = None
              /\ Contains(itinerary_text, <<flights[i].airline>>)
              /\ WithinFlightShare(flights[i])
              /\ \A j \in 1..(i - 1) : ~ReferenceQualifies(j))
                => Result.selected_flight = Some(flights[i])))

\* C20 as stated: the selected flight is the earliest flight in list order
\* whose identifier is in the text and whose price is within 0.6 x budget,
\* else the cheapest; the selected hotel is the earliest hotel whose name is
\* in the text and whose price is within the ceiling computed from the
\* selected flight, else the cheapest.
C20_SelectionIsReferenceRule ==
    Parsed =>
        /\ Result.selected_flight = ReferenceFlight
        /\ Result.selected_hotel = ReferenceHotel(Result.selected_flight)

(***************************************************************************)
(* generate_itinerary when a search returns nothing.                       *)
(***************************************************************************)
\* C15: every step of generate_itinerary that leaves an empty flight list or
\* an empty hotel list ends the request with the not-found error, and a step
\* that ends with the not-found error had an empty list, has issued no
\* completion call, produced no Itinerary and left the store as it was.
C15_EmptySearchIsNotFound ==
    [][/\ ((travel_request' # None /\ (flights' = <<>> \/ hotels' = <<>>)) =>
              /\ response'.kind = "http_404"
              /\ pc' = "idle")
       /\ (response'.kind = "http_404" =>
              /\ (flights' = <<>> \/ hotels' = <<>>)
              /\ llm_calls' = 0
              /\ itinerary' = None
              /\ itineraries' = itineraries)]_vars

\* After a stored itinerary, a request whose hotel search returned nothing
\* ended with the not-found error; the store still holds the earlier entry.
C15_Witness ==
    /\ pc = "idle"
    /\ response.kind = "http_404"
    /\ flights # <<>>
    /\ hotels = <<>>
    /\ llm_calls = 0
    /\ DOMAIN itineraries = {1}

(***************************************************************************)
(* Overlapping requests: generate_itinerary (lines 135-196) and            *)
(* sendChatMessage (lines 617-664) as coroutines on the one shared         *)
(* LLMPlanningService, interleaved at every step that touches the store.   *)
(***************************************************************************)
Tasks == 1..MaxTasks

\* A coroutine slot with nothing running in it.
IdleTask ==
    [op |-> "none", pc |-> "idle", travel_request |-> None,
     flights |-> <<>>, hotels |-> <<>>, itinerary_text |-> <<>>,
     itinerary |-> None, itinerary_id |-> None, context |-> None,
     llm_calls |-> 0, response |-> [kind |-> "none"]]

\* A slot is free before its first request and after a request has returned.
Free(t) == tasks[t].pc \in {"idle", "done"}

ConcurrentRequest == TravelRequest(Origin, Destination, June1, 1, 1000)
ConcurrentFlights == {<<>>, <<FlightOption("SIA", Some("SQ123"), 400)>>}
ConcurrentHotels == {<<>>, <<[name |-> <<"Ritz">>, rating |-> 2]>>}
ConcurrentOutcomes == {LLMText(<<"Day", " ", "1", ":", " ", "walk", "\n">>)}

\* Mutant: the request id is not fresh, a call returns again the value the
\* call before it returned.
Uuid4Repeating(n) == Max2(1, n - 1)

\* str(uuid.uuid4()): a value no earlier call returned; n counts the calls.
Uuid4(n) == n

\* Ids a follow-up can name: those generation can hand out, and one it cannot.
ChatIds == 1..(MaxRequests + 1)

ChatOutcomes == {LLMText(<<"Sure", ".", " ">>), LLMError}

NotFoundReply == "I couldn't find the itinerary you're referring to. Please try again."
ErrorReply == "I'm sorry, I encountered an error while processing your message. Please try again."

\* The dictionary _get_itinerary_context builds from a stored Itinerary.
ContextOf(it) ==
    [trip_details |-> [origin |-> it.travel_request.origin,
                       destination |-> it.travel_request.destination,
                       duration_days |-> it.travel_request.duration,
                       start_date |-> it.travel_request.depart_date,
                       budget |-> it.travel_request.budget],
     selected_flight |-> it.selected_flight,
     selected_hotel |-> it.selected_hotel,
     available_flights |-> it.available_flights,
     available_hotels |-> it.available_hotels,
     daily_plan |-> it.daily_plan,
     summary |-> it.summary,
     total_cost |-> it.total_cost,
     raw_itinerary_text |-> it.raw_text]

\* _get_itinerary_context: self._itineraries.get(id), None when absent.
GetItineraryContext(store, id) ==
    IF id \in DOMAIN store THEN Some(ContextOf(store[id])) ELSE None

\* Mutant: the `if not context` return is missing.
ContextMissingIgnored(context) == FALSE

\* `if not context` (line 632).
ContextMissing(context) == context = None

InitConcurrent ==
    /\ pc = "idle"
    /\ travel_request = None
    /\ flights = <<>>
    /\ hotels = <<>>
    /\ llm_calls = 0
    /\ llm_failed = FALSE
    /\ itinerary_text = <<>>
    /\ itinerary = None
    /\ response = [kind |-> "none"]
    /\ itineraries = <<>>
    /\ next_id = 1
    /\ tasks = [t \in Tasks |-> IdleTask]

Single == <<pc, travel_request, flights, hotels, llm_calls, llm_failed,
            itinerary_text, itinerary, response>>

\* Ids are handed out up to MaxRequests: those given plus those the
\* generations in flight will ask for.
IdsLeft ==
    (next_id - 1) + Cardinality({t \in Tasks : tasks[t].pc = "llm"}) < MaxRequests

\* generate_itinerary, lines 145-164: a search returns nothing and the
\* request ends with the not-found error.
GenerateNotFound(t) ==
    /\ Free(t)
    /\ \E fl \in ConcurrentFlights, hd \in ConcurrentHotels :
          /\ fl = <<>> \/ hd = <<>>
          /\ tasks' = [tasks EXCEPT ![t] =
                 [IdleTask EXCEPT
                     !.op = "generate", !.pc = "done",
                     !.travel_request = Some(ConcurrentRequest),
                     !.flights = fl,
                     !.response = [kind |-> "http_404"]]]
    /\ UNCHANGED <<Single, itineraries, next_id>>

\* generate_itinerary, lines 145-210: both searches return candidates and
\* create_itinerary reaches the completion call.
GenerateStart(t) ==
    /\ Free(t)
    /\ IdsLeft
    /\ \E fl \in ConcurrentFlights \ {<<>>}, hd \in ConcurrentHotels \ {<<>>} :
          tasks' = [tasks EXCEPT ![t] =
              [IdleTask EXCEPT
                  !.op = "generate", !.pc = "llm",
                  !.travel_request = Some(ConcurrentRequest),
                  !.flights = fl,
                  !.hotels = ConvertHotels(hd, [i \in 1..Len(hd) |-> 100])]]
    /\ UNCHANGED <<Single, itineraries, next_id>>

\* _generate_itinerary_text: the completion call returns or fails.
GenerateText(t) ==
    /\ tasks[t].pc = "llm"
    /\ \E llm \in ConcurrentOutcomes :
          LET out == GenerateItineraryText(tasks[t].travel_request[1], llm)
          IN  tasks' = [tasks EXCEPT ![t] =
                  IF out.raised
                  THEN [@ EXCEPT !.pc = "done", !.llm_calls = 1,
                                 !.response = [kind |-> "http_500"]]
                  ELSE [@ EXCEPT !.pc = "parse", !.llm_calls = 1,
                                 !.itinerary_text = out.text]]
    /\ UNCHANGED <<Single, itineraries, next_id>>

\* create_itinerary, lines 213-220: the text is parsed (the request id is
\* drawn at line 605) and the Itinerary completed.
GenerateCreate(t) ==
    /\ tasks[t].pc = "parse"
    /\ LET tk == tasks[t]
       IN  tasks' = [tasks EXCEPT ![t] =
               IF SelectionRaises(tk.flights, tk.hotels)
               THEN [tk EXCEPT !.pc = "done", !.response = [kind |-> "http_500"]]
               ELSE [tk EXCEPT
                        !.pc = "store",
                        !.itinerary =
                            Some(CreateItinerary(tk.travel_request[1], tk.itinerary_text,
                                                 tk.flights, tk.hotels, Uuid4(next_id)))]]
    /\ next_id' = next_id + 1
    /\ UNCHANGED <<Single, itineraries>>

\* generate_itinerary, lines 194-196: the Itinerary is stored and returned.
GenerateStore(t) ==
    /\ tasks[t].pc = "store"
    /\ itineraries' = StoreItinerary(itineraries, tasks[t].itinerary[1])
    /\ tasks' = [tasks EXCEPT ![t] =
           [tasks[t] EXCEPT
               !.pc = "done",
               !.response = [kind |-> "itinerary", itinerary |-> tasks[t].itinerary[1]]]]
    /\ UNCHANGED <<Single, next_id>>

\* sendChatMessage, lines 628-636: the store is read; an id it does not hold
\* is answered at once.
ChatRead(t) ==
    /\ Free(t)
    /\ \E id \in ChatIds :
          LET context == GetItineraryContext(itineraries, id)
          IN  tasks' = [tasks EXCEPT ![t] =
                  IF ContextMissing(context)
                  THEN [IdleTask EXCEPT
                           !.op = "chat", !.pc = "done",
                           !.itinerary_id = Some(id), !.context = context,
                           !.response = [kind |-> "chat", reply |-> NotFoundReply,
                                         updated_itinerary |-> None]]
                  ELSE [IdleTask EXCEPT
                           !.op = "chat", !.pc = "chat_llm",
                           !.itinerary_id = Some(id), !.context = context]]
    /\ UNCHANGED <<Single, itineraries, next_id>>

\* Mutant: a failed completion call is not caught, the follow-up raises.
ChatReplyRaising(t) ==
    /\ tasks[t].pc = "chat_llm"
    /\ \E llm \in ChatOutcomes :
          tasks' = [tasks EXCEPT ![t] =
              [@ EXCEPT !.pc = "done", !.llm_calls = 1,
                        !.response =
                            IF llm.kind = "text"
                            THEN [kind |-> "chat",
                                  reply |-> Strip(llm.content),
                                  updated_itinerary |-> None]
                            ELSE [kind |-> "exception"]]]
    /\ UNCHANGED <<Single, itineraries, next_id>>

\* sendChatMessage, lines 638-664: the completion call returns a reply, or
\* anything that goes wrong is answered with the error message.
ChatReply(t) ==
    /\ tasks[t].pc = "chat_llm"
    /\ \E llm \in ChatOutcomes :
          tasks' = [tasks EXCEPT ![t] =
              [@ EXCEPT !.pc = "done", !.llm_calls = 1,
                        !.response =
                            [kind |-> "chat",
                             reply |-> IF llm.kind = "text"
                                       THEN Strip(llm.content) ELSE ErrorReply,
                             updated_itinerary |-> None]]]
    /\ UNCHANGED <<Single, itineraries, next_id>>

NextConcurrent ==
    \E t \in Tasks :
        \/ GenerateNotFound(t)
        \/ GenerateStart(t)
        \/ GenerateText(t)
        \/ GenerateCreate(t)
        \/ GenerateStore(t)
        \/ ChatRead(t)
        \/ ChatReply(t)

SpecConcurrent == InitConcurrent /\ [][NextConcurrent]_vars

(***************************************************************************)
(* Properties of the store under overlapping requests.                     *)
(***************************************************************************)
\* Slot t takes a new follow-up in this step, naming an itinerary id.
ChatStarts(t) ==
    /\ Free(t)
    /\ tasks'[t] # tasks[t]
    /\ tasks'[t].op = "chat"

\* C12: a follow-up naming an id the store does not hold returns at once the
\* reply dictionary with the apologetic message and updated_itinerary null:
\* no exception, no completion call, and the store as it was.
C12_UnknownIdAnsweredWithoutCall ==
    [][\A t \in Tasks :
          ((ChatStarts(t) /\ tasks'[t].itinerary_id[1] \notin DOMAIN itineraries) =>
              /\ tasks'[t].pc = "done"
              /\ tasks'[t].response = [kind |-> "chat", reply |-> NotFoundReply,
                                       updated_itinerary |-> None]
              /\ tasks'[t].llm_calls = 0
              /\ itineraries' = itineraries)]_vars

\* The store holds an itinerary, and a follow-up naming another id was
\* answered with the apologetic message without a completion call.
C12_Witness ==
    /\ itineraries # <<>>
    /\ \E t \in Tasks :
          /\ tasks[t].op = "chat"
          /\ tasks[t].pc = "done"
          /\ tasks[t].itinerary_id[1] \notin DOMAIN itineraries
          /\ tasks[t].response.reply = NotFoundReply
          /\ tasks[t].llm_calls = 0

\* C13: no step removes or changes an entry of the store; the Itinerary a
\* generation returned is in the store under its request id, unchanged; and
\* a follow-up naming an id the store holds finds that entry.
C13_StoreWriteOnceGrowOnly ==
    [][/\ \A id \in DOMAIN itineraries :
              /\ id \in DOMAIN itineraries'
              /\ itineraries'[id] = itineraries[id]
       /\ \A t \in Tasks :
              (tasks'[t].response.kind = "itinerary" =>
                  /\ tasks'[t].response.itinerary.request_id \in DOMAIN itineraries'
                  /\ itineraries'[tasks'[t].response.itinerary.request_id]
                         = tasks'[t].response.itinerary)
       /\ \A t \in Tasks :
              ((ChatStarts(t) /\ tasks'[t].itinerary_id[1] \in DOMAIN itineraries) =>
                  /\ tasks'[t].pc = "chat_llm"
                  /\ tasks'[t].context
                         = Some(ContextOf(itineraries[tasks'[t].itinerary_id[1]])))]_vars

\* Two itineraries are stored; the generation that returned the first still
\* holds it, and a later follow-up naming its id found it and was answered.
C13_Witness ==
    /\ DOMAIN itineraries = {1, 2}
    /\ \E t, u \in Tasks :
          /\ t # u
          /\ tasks[t].response.kind = "itinerary"
          /\ tasks[t].response.itinerary.request_id = 1
          /\ tasks[u].op = "chat"
          /\ tasks[u].pc = "done"
          /\ tasks[u].itinerary_id = Some(1)
          /\ tasks[u].context = Some(ContextOf(itineraries[1]))
          /\ tasks[u].response.reply # NotFoundReply

\* The Itinerary is the finished result of create_itinerary on its text.
Complete(it) ==
    it = CreateItinerary(it.travel_request, it.raw_text, it.available_flights,
                         it.available_hotels, it.request_id)

\* The request ids drawn by generations that have not stored yet.
PendingIds == {tasks[t].itinerary[1].request_id : t \in {u \in Tasks : tasks[u].pc = "store"}}

\* C14: whatever the interleaving, the generations in flight hold distinct
\* request ids, every id drawn is either still to be stored or in the store
\* (no insert overwrote or lost another), every entry is a complete
\* Itinerary under its own id, a generation that returned finds its
\* Itinerary in the store, and what a follow-up read for an id is nothing or
\* that complete entry.
C14_ConcurrentInsertsAndReads ==
    /\ \A t, u \in Tasks :
           ((t # u /\ tasks[t].itinerary # None /\ tasks[u].itinerary # None) =>
               tasks[t].itinerary[1].request_id # tasks[u].itinerary[1].request_id)
    /\ DOMAIN itineraries = (1..(next_id - 1)) \ PendingIds
    /\ \A id \in DOMAIN itineraries :
           /\ itineraries[id].request_id = id
           /\ Complete(itineraries[id])
    /\ \A t \in Tasks :
           (tasks[t].response.kind = "itinerary" =>
               itineraries[tasks[t].response.itinerary.request_id]
                   = tasks[t].response.itinerary)
    /\ \A t \in Tasks :
           (tasks[t].op = "chat" =>
               \/ tasks[t].context = None
               \/ /\ tasks[t].itinerary_id[1] \in DOMAIN itineraries
                  /\ tasks[t].context
                         = Some(ContextOf(itineraries[tasks[t].itinerary_id[1]])))

\* Two generations overlapped: the one that drew request id 1 has not stored
\* yet, while the one that drew id 2 after it has stored and returned.
C14_Witness ==
    /\ DOMAIN itineraries = {2}
    /\ \E t, u \in Tasks :
          /\ tasks[t].pc = "store"
          /\ tasks[t].itinerary[1].request_id = 1
          /\ tasks[u].pc = "done"
          /\ tasks[u].response.kind = "itinerary"
          /\ tasks[u].response.itinerary.request_id = 2

(***************************************************************************)
(* Where a day's content starts and ends (lines 399-426), read off the     *)
(* parsed descriptions under SpecDays.                                     *)
(***************************************************************************)
\* A marker (any variant) of day e starts at position p of the text.
MarkerOfDayAt(e, p) ==
    \/ OccursAt(itinerary_text, <<"#", "#", "#", " ", "Day", " ">> \o StrInt(e), p)
    \/ OccursAt(itinerary_text, <<"#", "#", " ", "Day", " ">> \o StrInt(e), p)
    \/ OccursAt(itinerary_text, <<"Day", " ">> \o StrInt(e) \o <<":">>, p)
    \/ OccursAt(itinerary_text, <<"Day", " ">> \o StrInt(e) \o <<" ", "-">>, p)

\* The position right after the first occurrence of the marker used for day d.
ContentStart(d) == Find(itinerary_text, UsedMarker(d)) + Len(UsedMarker(d))

\* The earliest position at or after the start of day d's content where a
\* marker of one of the days `enders` begins; one past the end of the text
\* when there is none.
ContentEnd(d, enders) ==
    LET ps == {p \in ContentStart(d)..Len(itinerary_text) :
                   \E e \in enders : MarkerOfDayAt(e, p)}
    IN  IF ps = {} THEN Len(itinerary_text) + 1
        ELSE CHOOSE p \in ps : \A q \in ps : p <= q

\* The text of day d between its start and the first marker of `enders`,
\* stripped as the description is.
ContentBetween(d, enders) ==
    Strip(SubSeq(itinerary_text, ContentStart(d), ContentEnd(d, enders) - 1))

\* C21 as stated: the content of day d starts right after the first occurrence
\* of its highest-priority marker present and ends at the earliest marker of
\* day d+1 after that start, else at the end of the text.
C21_ContentEndsAtNextDayMarker ==
    Parsed =>
        \A i \in 1..Len(Plan) :
            Plan[i].description = ContentBetween(Plan[i].day, {Plan[i].day + 1})

\* C21 amended: the content of day d starts right after the first occurrence
\* of its highest-priority marker present and ends at the earliest marker of
\* any later day d+1..duration after that start, else at the end of the text.
C21_ContentEndsAtLaterDayMarker ==
    Parsed =>
        \A i \in 1..Len(Plan) :
            Plan[i].description
                = ContentBetween(Plan[i].day, (Plan[i].day + 1)..Duration)

\* Day 1 has content, no marker of day 2 follows it, and a marker of day 3
\* ends it before the end of the text.
C21_Witness ==
    /\ Parsed
    /\ Duration = 3
    /\ Len(Plan) >= 1
    /\ Plan[1].day = 1
    /\ ContentEnd(1, {2}) = Len(itinerary_text) + 1
    /\ ContentEnd(1, {3}) <= Len(itinerary_text)
    /\ Plan[1].description = ContentBetween(1, {3})
    /\ Plan[1].description # ContentBetween(1, {2})

(***************************************************************************)
(* Where the segments of a day end (lines 433-503).                        *)
(***************************************************************************)
\* The content of day d as cut out of the text, before stripping.
RawContent(d) ==
    SubSeq(itinerary_text, ContentStart(d), ContentEnd(d, (d + 1)..Duration) - 1)

\* The earliest position of s where one of the patterns begins; one past the
\* end of s when none occurs.
FirstPos(s, pats) ==
    LET ps == {p \in 1..Len(s) : \E m \in pats : OccursAt(s, m, p)}
    IN  IF ps = {} THEN Len(s) + 1 ELSE CHOOSE p \in ps : \A q \in ps : p <= q

\* s up to the first occurrence of one of the patterns, stripped.
UpTo(s, pats) == Strip(SubSeq(s, 1, FirstPos(s, pats) - 1))

\* s up to the first blank line, else up to the first line break, stripped.
UpToBreak(s) ==
    IF FirstPos(s, {<<"\n", "\n">>}) <= Len(s)
    THEN UpTo(s, {<<"\n", "\n">>})
    ELSE UpTo(s, {<<"\n">>})

\* What follows the first occurrence of the first marker of the list (in list
\* order) that occurs in s.
AfterMarker(s, markers) == AfterFirst(s, FirstMarkerIn(s, markers))

\* The afternoon of entry i ends at the earliest evening marker, else at the
\* first blank line, else at the first line break.
AfternoonAsClaimed(i) ==
    LET c == RawContent(Plan[i].day)
    IN  AnyMarkerIn(c, AfternoonMarkers) =>
            LET rest == AfterMarker(c, AfternoonMarkers)
            IN  Plan[i].afternoon
                    = IF AnyMarkerIn(rest, EveningMarkers)
                      THEN Some(UpTo(rest, Range(EveningMarkers)))
                      ELSE Some(UpToBreak(rest))

\* C22 as stated: a morning that no afternoon marker follows is the text up to
\* the first blank line, else up to the first line break; the afternoon ends
\* at the earliest evening marker, else likewise.
C22_MorningEndsAtBreak ==
    Parsed =>
        \A i \in 1..Len(Plan) :
            LET c == RawContent(Plan[i].day)
            IN  /\ (AnyMarkerIn(c, MorningMarkers)
                    /\ ~AnyMarkerIn(AfterMarker(c, MorningMarkers), AfternoonMarkers))
                       => Plan[i].morning
                              = Some(UpToBreak(AfterMarker(c, MorningMarkers)))
                /\ AfternoonAsClaimed(i)

\* C22 amended: a morning that no afternoon marker follows ends at the
\* earliest evening marker after it, else at the first blank line, else at the
\* first line break; the afternoon ends at the earliest evening marker, else
\* at the first blank line, else at the first line break.
C22_MorningEndsAtEveningOrBreak ==
    Parsed =>
        \A i \in 1..Len(Plan) :
            LET c == RawContent(Plan[i].day)
            IN  /\ (AnyMarkerIn(c, MorningMarkers)
                    /\ ~AnyMarkerIn(AfterMarker(c, MorningMarkers), AfternoonMarkers))
                       => LET rest == AfterMarker(c, MorningMarkers)
                          IN  Plan[i].morning
                                  = IF AnyMarkerIn(rest, EveningMarkers)
                                    THEN Some(UpTo(rest, Range(EveningMarkers)))
                                    ELSE Some(UpToBreak(rest))
                /\ AfternoonAsClaimed(i)

\* A morning with no afternoon marker after it is ended by the evening marker
\* on the next line, before the first blank line.
C22_Witness ==
    /\ Parsed
    /\ Len(Plan) >= 1
    /\ LET rest == AfterMarker(RawContent(Plan[1].day), MorningMarkers)
       IN  /\ AnyMarkerIn(RawContent(Plan[1].day), MorningMarkers)
           /\ ~AnyMarkerIn(rest, AfternoonMarkers)
           /\ AnyMarkerIn(rest, EveningMarkers)
           /\ Plan[1].morning = Some(<<"walk">>)
           /\ UpToBreak(rest) # <<"walk">>
           /\ Plan[1].evening = Some(<<"dinner">>)

\* Some variant of the segment's markers occurs in the content of day d.
SegmentMarked(d, markers) ==
    FirstPos(RawContent(d), Range(markers)) <= Len(RawContent(d))

\* C23: in every day entry, morning, afternoon and evening are each null
\* exactly when no marker variant of that segment occurs in the day's content,
\* and a sequence of words (possibly empty) otherwise.
C23_SegmentNullIffUnmarked ==
    Parsed =>
        \A i \in 1..Len(Plan) :
            /\ (Plan[i].morning = None) <=> ~SegmentMarked(Plan[i].day, MorningMarkers)
            /\ (Plan[i].afternoon = None) <=> ~SegmentMarked(Plan[i].day, AfternoonMarkers)
            /\ (Plan[i].evening = None) <=> ~SegmentMarked(Plan[i].day, EveningMarkers)
            /\ SegmentMarked(Plan[i].day, MorningMarkers)
                   => Len(Plan[i].morning) = 1
            /\ SegmentMarked(Plan[i].day, AfternoonMarkers)
                   => Len(Plan[i].afternoon) = 1
            /\ SegmentMarked(Plan[i].day, EveningMarkers)
                   => Len(Plan[i].evening) = 1

\* A day whose content has an afternoon marker and nothing else: afternoon is
\* set, morning and evening are null.
C23_Witness ==
    /\ Parsed
    /\ Len(Plan) >= 1
    /\ SegmentMarked(Plan[1].day, AfternoonMarkers)
    /\ ~SegmentMarked(Plan[1].day, MorningMarkers)
    /\ ~SegmentMarked(Plan[1].day, EveningMarkers)
    /\ Plan[1].afternoon = Some(<<"**", " ", "museum">>)
    /\ Plan[1].morning = None
    /\ Plan[1].evening = None

(***************************************************************************)
(* The cost rules without and with an explicit total (lines 522-583),      *)
(* under SpecCost.                                                         *)
(***************************************************************************)
\* None of the five explicit-total patterns matches the text.
NoTotalPattern ==
    \A k \in 1..Len(CostPatterns) : SearchTotal(itinerary_text, CostPatterns[k]) = 0

\* The sum of the currency mentions strictly between 0 and 500.
Mentions == ActivityTotal(itinerary_text)

\* C24: without a match of an explicit-total pattern the total is
\* base + min(S, budget - base), at most the budget; it is the base when there
\* are no mentions and the base fits, and the budget when the base exceeds it.
C24_NoTotalGivesBasePlusMentions ==
    (Parsed /\ NoTotalPattern) =>
        /\ Result.total_cost
               = Min2(Budget, SelectionCost + Min2(Mentions, Budget - SelectionCost))
        /\ (Mentions = 0 /\ SelectionCost <= Budget)
               => Result.total_cost = SelectionCost
        /\ SelectionCost > Budget => Result.total_cost = Budget

\* Flight 400 and two nights at 80 with one mention of 50: the total is 610.
C24_Witness ==
    /\ Parsed
    /\ NoTotalPattern
    /\ Duration = 3
    /\ SelectionCost = 560
    /\ Mentions = 50
    /\ Result.total_cost = 610

\* C25: an explicit total v <= budget found in the text is the total, for
\* every v in [0, budget], v = 0 included: it replaces the base cost and no
\* mention is added.
C25_ExplicitTotalIsTheTotal ==
    (Parsed /\ ExtractedCost(itinerary_text) # None) =>
        (ExtractedCost(itinerary_text)[1] <= Budget
            => Result.total_cost = ExtractedCost(itinerary_text)[1])

(***************************************************************************)
(* A follow-up on a stored itinerary (sendChatMessage, lines 617-664).     *)
(***************************************************************************)
\* Slot t is in a follow-up whose id the store held when it was read.
ChatOnStored(t) ==
    /\ tasks[t].op = "chat"
    /\ tasks[t].pc = "chat_llm"

\* C26: a follow-up naming a stored id makes exactly one completion call,
\* leaves the store as it is, and returns a reply dictionary with
\* updated_itinerary null, also when the completion call fails.
C26_ChatOnStoredIdCallsOnceAndReplies ==
    [][\A t \in Tasks :
          /\ (ChatStarts(t) /\ tasks'[t].itinerary_id[1] \in DOMAIN itineraries) =>
                 /\ tasks'[t].pc = "chat_llm"
                 /\ tasks'[t].llm_calls = 0
                 /\ itineraries' = itineraries
          /\ (ChatOnStored(t) /\ tasks'[t] # tasks[t]) =>
                 /\ tasks'[t].pc = "done"
                 /\ tasks'[t].llm_calls = 1
                 /\ tasks'[t].response.kind = "chat"
                 /\ tasks'[t].response.updated_itinerary = None
                 /\ tasks'[t].response.reply \in {<<"Sure", ".">>, ErrorReply}
                 /\ itineraries' = itineraries]_vars

\* A follow-up on a stored itinerary whose completion call failed has
\* returned the error reply after one call, the itinerary still stored.
C26_Witness ==
    \E t \in Tasks :
        /\ tasks[t].op = "chat"
        /\ tasks[t].pc = "done"
        /\ tasks[t].itinerary_id[1] \in DOMAIN itineraries
        /\ tasks[t].context # None
        /\ tasks[t].llm_calls = 1
        /\ tasks[t].response
               = [kind |-> "chat", reply |-> ErrorReply, updated_itinerary |-> None]

(***************************************************************************)
(* The selections and the retained candidate lists (lines 217-218, 365-392 *)
(* and 604-615), under SpecCreate.                                         *)
(***************************************************************************)
\* x is one of the first n elements of xs.
AmongFirst(x, xs, n) == \E i \in 1..Min2(n, Len(xs)) : xs[i] = x

\* C27 as stated: a non-null selected flight is an element of
\* available_flights and a non-null selected hotel an element of
\* available_hotels, also when more than five candidates were supplied.
C27_SelectionIsAvailable ==
    Created =>
        /\ Result.selected_flight # None
               => AmongFirst(Result.selected_flight[1], Result.available_flights,
                             Len(Result.available_flights))
        /\ Result.selected_hotel # None
               => AmongFirst(Result.selected_hotel[1], Result.available_hotels,
                             Len(Result.available_hotels))

\* C27 amended: a non-null selection is an element of the candidate list
\* supplied, and it is an element of the available list whenever it is among
\* the first five candidates, so always when at most five were supplied.
C27_SelectionAmongFirstFiveIsAvailable ==
    Created =>
        /\ Result.selected_flight # None =>
               /\ AmongFirst(Result.selected_flight[1], flights, Len(flights))
               /\ AmongFirst(Result.selected_flight[1], flights, AvailableLimit)
                      => AmongFirst(Result.selected_flight[1], Result.available_flights,
                                    Len(Result.available_flights))
        /\ Result.selected_hotel # None =>
               /\ AmongFirst(Result.selected_hotel[1], hotels, Len(hotels))
               /\ AmongFirst(Result.selected_hotel[1], hotels, AvailableLimit)
                      => AmongFirst(Result.selected_hotel[1], Result.available_hotels,
                                    Len(Result.available_hotels))

\* Five flights, the cheapest last: it is selected and is the fifth available
\* flight; of six hotels the cheapest, the sixth, is selected and not retained.
C27_Witness ==
    /\ Created
    /\ Len(flights) = 5
    /\ Result.selected_flight = Some(flights[5])
    /\ Result.available_flights[5] = flights[5]
    /\ Len(hotels) = 6
    /\ Result.selected_hotel = Some(hotels[6])
    /\ ~AmongFirst(hotels[6], Result.available_hotels, Len(Result.available_hotels))

\* An explicit total was read from the text and it is within the budget.
TotalAccepted ==
    LET extracted_cost == ExtractedCost(itinerary_text)
    IN  extracted_cost # None /\ extracted_cost[1] <= Budget

\* C28 as stated: the total is never below min(budget, flight price + hotel
\* price x nights) of the selections.
C28_TotalCoversSelections ==
    Parsed => Result.total_cost >= Min2(Budget, SelectionCost)

\* C28 amended: unless an explicit total within the budget was read from the
\* text, the total is never below min(budget, flight price + hotel price x
\* nights) of the selections.
C28_TotalCoversSelectionsUnlessExplicit ==
    (Parsed /\ ~TotalAccepted) =>
        Result.total_cost >= Min2(Budget, SelectionCost)

\* No explicit total, selections that fit the budget, and mentions that take
\* the total from the cost of the selections up to the budget.
C28_Witness ==
    /\ Parsed
    /\ ExtractedCost(itinerary_text) = None
    /\ SelectionCost > 0
    /\ SelectionCost < Budget
    /\ Mentions > Budget - SelectionCost
    /\ Result.total_cost = Budget

(***************************************************************************)
(* The fallback template through the day parser (lines 326-353, 399-520),  *)
(* under SpecCreate.                                                       *)
(***************************************************************************)
\* The three lines of a day's section of the fallback template, as a
\* stripped description holds them.
FallbackSection ==
    <<"-", " ", "Morning", ":", " ", "Breakfast at hotel, explore local area", "\n",
      "-", " ", "Afternoon", ":", " ", "Visit main tourist attractions", "\n",
      "-", " ", "Evening", ":", " ", "Dinner at local restaurant">>

\* C29: after a failed completion call the plan has one entry for each day
\* 1..duration, in order, each with morning, afternoon and evening set, and a
\* description that starts with the day's own three lines and holds no
\* heading of a day; before the last day it is those three lines exactly.
C29_FallbackGivesEveryDay ==
    (Created /\ llm_failed) =>
        /\ Len(Plan) = Duration
        /\ \A d \in 1..Len(Plan) :
               /\ Plan[d].day = d
               /\ Plan[d].morning # None
               /\ Plan[d].afternoon # None
               /\ Plan[d].evening # None
               /\ Prefix(Plan[d].description, Len(FallbackSection)) = FallbackSection
               /\ ~Contains(Plan[d].description, <<"Day">>)
               /\ d < Duration => Plan[d].description = FallbackSection

\* A fallback for a trip of ten days or more: day 1 and day 10 each have
\* their own three lines, and the evening of day 10 is the template's.
C29_Witness ==
    /\ Created
    /\ llm_failed
    /\ Duration >= 10
    /\ Len(Plan) = Duration
    /\ Plan[1].description = FallbackSection
    /\ Plan[10].description = FallbackSection
    /\ Plan[10].evening = Some(<<"Dinner at local restaurant">>)

(***************************************************************************)
(* The cost of a hotel chosen from the text (lines 382-392, 522-530),      *)
(* under SpecSelect.                                                       *)
(***************************************************************************)
\* The scan of the hotel list accepted a hotel: the selected hotel was chosen
\* by its mention in the text, not as the default.
HotelChosenFromText ==
    HotelMatches(travel_request, itinerary_text, hotels, Result.selected_flight) # {}

\* C30: when the selected hotel was chosen by its mention in the text, the
\* selected flight's price (0 without a flight) plus the hotel's price per
\* night times max(1, duration - 1) is at most the budget.
C30_MentionedHotelFitsBudget ==
    (Parsed /\ HotelChosenFromText) =>
        /\ Result.selected_hotel # None
        /\ SelectionCost <= Budget

\* A trip of three days: the mentioned hotel, which is not the cheapest, was
\* chosen next to a flight, and both fit the budget.
C30_Witness ==
    /\ Parsed
    /\ HotelChosenFromText
    /\ Duration = 3
    /\ Result.selected_flight # None
    /\ Result.selected_hotel # None
    /\ ~CheapestHotel(Result.selected_hotel[1])
    /\ SelectionCost <= Budget

=============================================================================
